---- MODULE Spec2Model ----
(***************************************************************************)
(* FileHashCalculator: the streaming hash engine of js/hash-calculator.js. *)
(*                                                                         *)
(* Spec     one call of calculateMultipleHashes(file, algorithms, options) *)
(*          over short files: the loop over the algorithms, one            *)
(*          calculateHash per algorithm, FileReader callbacks as actions.  *)
(* SpecBig  the same operations over files longer than two 64-byte MD5     *)
(*          blocks, one algorithm per call.                                *)
(* SpecAcc  a caller driving createHashInstance / updateHash /             *)
(*          finalizeHash directly, in any order.                           *)
(*                                                                         *)
(* The four MD5 state words are represented by the sequence of 64-byte     *)
(* blocks md5Transform has been applied to since md5Init (the words are a  *)
(* function of that sequence); the platform primitives crypto.subtle.digest*)
(* and crypto.subtle.sign are represented by the terms they are applied to.*)
(***************************************************************************)
EXTENDS Integers, Sequences, FiniteSets, TLC

\* ------------------------------------------------------------------ bounds
MaxFileLen == 4      \* Spec: file lengths 0..MaxFileLen
MaxChunk == 3        \* Spec: chunk sizes 1..MaxChunk
MaxAlgs == 2         \* Spec: 1..MaxAlgs requested algorithms
MaxBigLen == 130     \* SpecBig: file lengths 0..MaxBigLen
MaxAccLen == 200     \* SpecAcc: the length of the byte stream chunks are taken from
MaxUpdates == 3      \* SpecAcc: updateHash is called at most this many times
MaxFinalize == 2     \* SpecAcc: finalizeHash is called at most this many times
MaxHexLen == 2       \* SpecHex: every buffer of 0..MaxHexLen bytes over HexBytes
MaxMd5Len == 70      \* SpecMd5: file lengths 0..MaxMd5Len, and the test inputs

\* ------------------------------------------------------- program constants
BlockSize == 64
TwoTo28 == 268435456
TwoTo29 == 536870912

\* ------------------------------------------------------------------ state
VARIABLES
    file,            \* the bytes of the File (file.size = Len(file))
    chunkSize,       \* options.chunkSize
    algorithms,      \* the requested algorithm names, in order
    cryptoSupported, \* isCryptoSupported()
    hmacKey,         \* options.hmacKey: None (null) or Some(string)
    pc,              \* "loop": between two calculateHash calls; "reading": a
                     \* FileReader read is outstanding; "done": report returned;
                     \* "acc": SpecAcc, the accumulator is driven directly
    idx,             \* 1-based position of the for..of loop in algorithms
    mode,            \* which reader.onload is installed: "small", "chunk",
                     \* "hmacSmall", "hmacChunk" (or "none")
    rd,              \* the outstanding read: [off, len] of the file
    offset,          \* calculateHash / readNextChunk: let offset
    processedBytes,  \* calculateHash: let processedBytes
    hashObj,         \* calculateHash: const hashBuffer (the accumulator)
    chunks,          \* readFileAsArrayBuffer: const chunks
    results,         \* calculateMultipleHashes: const results
    report,          \* None, or Some(the object calculateMultipleHashes returns)
    reads,           \* log: every readAsArrayBuffer issued, [alg, off, len]
    fed,             \* log: every updateHash call, [alg, off, len]
    events,          \* log: every call of options.onProgress, [processed, total, percentage]
    outcomes,        \* log: how each calculateHash call settled, [kind, message]
    ioFailed,        \* a reader.onerror has fired
    finals,          \* log: what each finalizeHash call did
    hexBuffer,       \* SpecHex: the bytes handed to bufferToHex
    hexFormat,       \* SpecHex: the format argument of bufferToHex
    hexString,       \* SpecHex: None, or Some(the string bufferToHex returned)
    selectedFiles,   \* FileHandler.selectedFiles
    calculationResults, \* FileHandler.calculationResults
    currentSettings, \* SettingsManager.currentSettings: [autoCalculate, resultFormat]
    calcDisabled,    \* document.getElementById('calculate-btn').disabled
    runs,            \* the calls of startCalculation that are awaiting a read
    uiLog,           \* log: reads issued and reports appended by startCalculation
    comparison,      \* what compareMultipleFiles last rendered, per algorithm
    matches,         \* what UI.compareHash last did: [input, found, matches]
    userEvents,      \* the number of user events handled so far
    chunkSetting,    \* SettingsManager.currentSettings.chunkSize
    storedSettings,  \* localStorage item 'hashCalculatorSettings'
    settingsCalls,   \* the number of SettingsManager calls made so far
    md5Count,        \* SpecCount: state.count of an MD5 accumulator
    md5Total,        \* SpecCount: the bytes handed to md5Update so far
    md5Calls,        \* SpecCount: the number of md5Update calls so far
    md5Length        \* SpecCount: None, or Some(the words md5Final wrote)

hashVars == <<file, chunkSize, algorithms, cryptoSupported, hmacKey, pc, idx, mode, rd,
              offset, processedBytes, hashObj, chunks, results, report, reads, fed,
              events, outcomes, ioFailed, finals>>

hexVars == <<hexBuffer, hexFormat, hexString>>

uiVars == <<selectedFiles, calculationResults, currentSettings, calcDisabled, runs,
            uiLog, comparison, matches, userEvents>>

setVars == <<chunkSetting, storedSettings, settingsCalls>>

cntVars == <<md5Count, md5Total, md5Calls, md5Length>>

vars == <<hashVars, hexVars, uiVars, setVars, cntVars>>

inputs == <<file, chunkSize, algorithms, cryptoSupported, hmacKey>>

\* What a calculateMultipleHashes call of the hash engine leaves alone.
idleVars == <<hexVars, uiVars, setVars, cntVars>>

\* ----------------------------------------------------------------- helpers
Min(a, b) == IF a < b THEN a ELSE b

None == <<>>
Some(x) == <<x>>

\* The bytes of a file of length n: byte i is (seed + i) mod 256, so that
\* every position of the files considered carries a different value.
MkFile(n, seed) == [i \in 1..n |-> (seed + i - 1) % 256]

\* Blob.slice(start, end) on a byte sequence (0-based, end exclusive, clamped).
Slice(bytes, start, end) ==
    SubSeq(bytes, Min(start, Len(bytes)) + 1, Min(end, Len(bytes)))

\* TypedArray.set(src, at): overwrite buf[at .. at+Len(src)-1] (0-based at).
SetAt(buf, at, src) ==
    SubSeq(buf, 1, at) \o src \o SubSeq(buf, at + Len(src) + 1, Len(buf))

Zeros(n) == [i \in 1..n |-> 0]

\* n << 3 for n >= 0: 8n reduced to a signed 32-bit integer. (The integers
\* of the model are the signed 32-bit range; count, a JavaScript double, is
\* modelled exactly while it stays inside it.)
Shl3(n) == IF n % TwoTo29 >= TwoTo28 THEN ((n % TwoTo29) - TwoTo29) * 8
                                      ELSE (n % TwoTo29) * 8

\* Math.round(p / total * 100) for p >= 0, total > 0.
Percentage(p, total) == (200 * p + total) \div (2 * total)

\* ------------------------------------------------------------ strings
\* A string is the sequence of its characters, each a one-character string.
HexDigits == <<"0", "1", "2", "3", "4", "5", "6", "7", "8", "9",
               "a", "b", "c", "d", "e", "f">>

\* Number.prototype.toString(16) of a byte: one digit below 16, else two.
ToString16(b) ==
    IF b < 16 THEN <<HexDigits[b + 1]>>
    ELSE <<HexDigits[(b \div 16) + 1], HexDigits[(b % 16) + 1]>>

\* Mutant: the digits of a byte are not padded.
PadStart_None(str, n, c) == str

\* String.prototype.padStart(n, c) with a one-character filler.
PadStart(str, n, c) ==
    IF Len(str) >= n THEN str ELSE [i \in 1..(n - Len(str)) |-> c] \o str

UpperChar(c) ==
    CASE c = "a" -> "A" [] c = "b" -> "B" [] c = "c" -> "C"
      [] c = "d" -> "D" [] c = "e" -> "E" [] c = "f" -> "F"
      [] c = "g" -> "G" [] c = "z" -> "Z"
      [] OTHER -> c

LowerChar(c) ==
    CASE c = "A" -> "a" [] c = "B" -> "b" [] c = "C" -> "c"
      [] c = "D" -> "d" [] c = "E" -> "e" [] c = "F" -> "f"
      [] c = "G" -> "g" [] c = "Z" -> "z"
      [] OTHER -> c

\* String.prototype.toUpperCase / toLowerCase over the characters of the model.
toUpperCase(str) == [i \in 1..Len(str) |-> UpperChar(str[i])]
toLowerCase(str) == [i \in 1..Len(str) |-> LowerChar(str[i])]

\* The loop of bufferToHex: hex += bytes[i].toString(16).padStart(2, '0').
RECURSIVE HexLoop(_)
HexLoop(bytes) ==
    IF bytes = <<>> THEN <<>>
    ELSE HexLoop(SubSeq(bytes, 1, Len(bytes) - 1))
            \o PadStart(ToString16(bytes[Len(bytes)]), 2, "0")

\* bufferToHex(buffer, format): upper case for 'uppercase', and the digits
\* as toString gives them (lower case) for every other format.
bufferToHex(buffer, format) ==
    IF format = "uppercase" THEN toUpperCase(HexLoop(buffer)) ELSE HexLoop(buffer)

\* ---------------------------------------------------------------- MD5
\* Mutant: md5Init hands out one shared state object instead of a fresh one.
md5Init_Shared ==
    IF hashObj.type = "js" THEN hashObj.state
    ELSE [blocks |-> <<>>, count |-> 0, buffer |-> Zeros(BlockSize)]

md5Init == [blocks |-> <<>>, count |-> 0, buffer |-> Zeros(BlockSize)]

\* Mutant: the bit count is taken for a byte count (no >> 3).
BufferIndex_NoShift(count) == count % BlockSize

\* (count >> 3) & 0x3F: arithmetic shift, then the low six bits.
BufferIndex(count) == (count \div 8) % BlockSize

\* Mutant: the loop over whole blocks stops one block early when the data
\* ends on a block boundary (< for <=).
RECURSIVE FullBlocks_Strict(_, _)
FullBlocks_Strict(data, from) ==
    IF from + BlockSize < Len(data)
    THEN <<SubSeq(data, from + 1, from + BlockSize)>>
            \o FullBlocks_Strict(data, from + BlockSize)
    ELSE <<>>

\* The full 64-byte blocks of data starting at 0-based position from: the
\* blocks the while loop of md5Update hands to md5Transform.
RECURSIVE FullBlocks(_, _)
FullBlocks(data, from) ==
    IF from + BlockSize <= Len(data)
    THEN <<SubSeq(data, from + 1, from + BlockSize)>> \o FullBlocks(data, from + BlockSize)
    ELSE <<>>

md5Update(state, data) ==
    LET bufferIndex0 == BufferIndex(state.count)
        count1 == state.count + Shl3(Len(data))
        needed == IF bufferIndex0 > 0 THEN Min(Len(data), BlockSize - bufferIndex0) ELSE 0
        buffer1 == IF bufferIndex0 > 0
                   THEN SetAt(state.buffer, bufferIndex0, SubSeq(data, 1, needed))
                   ELSE state.buffer
        filled == bufferIndex0 > 0 /\ bufferIndex0 + needed = BlockSize
        blocks1 == IF filled THEN Append(state.blocks, buffer1) ELSE state.blocks
        whole == FullBlocks(data, needed)
        bitsProcessed == needed + BlockSize * Len(whole)
        buffer2 == IF bitsProcessed < Len(data)
                   THEN SetAt(buffer1, 0, SubSeq(data, bitsProcessed + 1, Len(data)))
                   ELSE buffer1
    IN [blocks |-> blocks1 \o whole, count |-> count1, buffer |-> buffer2]

\* DataView.setUint32(_, v, true): the four bytes of v modulo 2^32,
\* little-endian (floor division gives the two's complement of a negative v).
LE32(v) == [i \in 1..4 |-> (v \div (256 ^ (i - 1))) % 256]

\* (count / 0x100000000) & 0xFFFFFFFF: the quotient truncated to an integer,
\* which is 0 for every count of magnitude below 2^32.
CountHigh(count) == 0

\* Mutant: md5Final pads a copy and leaves the accumulator as it was.
md5Final_OnCopy(state) ==
    [state |-> state,
     result |-> [alg |-> "MD5", key |-> "", input |-> Append(state.blocks, state.buffer)]]

\* md5Final mutates the accumulator (buffer and state words) and returns the
\* 16 bytes serialised from the state words: [state, result].
md5Final(state) ==
    LET r == BufferIndex(state.count)
        b1 == SetAt(state.buffer, r, <<128>>)
        extra == r + 1 > 56
        b2 == IF extra THEN SetAt(b1, r + 1, Zeros(BlockSize - (r + 1))) ELSE b1
        blocks1 == IF extra THEN Append(state.blocks, b2) ELSE state.blocks
        from == IF extra THEN 0 ELSE r + 1
        b3 == SetAt(b2, from, Zeros(56 - from))
        lengthBytes == LE32(state.count) \o LE32(CountHigh(state.count))
        b4 == SetAt(b3, 56, lengthBytes)
        blocks2 == Append(blocks1, b4)
    IN [state |-> [blocks |-> blocks2, count |-> state.count, buffer |-> b4],
        result |-> [alg |-> "MD5", key |-> "", input |-> blocks2]]

\* ------------------------------------------------ MD5: the state words
\* A JavaScript number that holds an integer is the pair <<hi, lo>> of value
\* hi * 2^16 + lo with lo in 0..65535: sums are exact (not reduced), and
\* the bitwise operators reduce their operands to 32 bits.
Half == 65536

JsAdd(x, y) == <<x[1] + y[1] + ((x[2] + y[2]) \div Half), (x[2] + y[2]) % Half>>

ToUint32(x) == <<x[1] % Half, x[2]>>

ToInt32(x) == <<IF x[1] % Half >= 32768 THEN (x[1] % Half) - Half ELSE x[1] % Half, x[2]>>

Bit(n, i) == (n \div (2 ^ i)) % 2

AndNib == [a \in 0..15, b \in 0..15 |->
             Bit(a, 0) * Bit(b, 0) + 2 * Bit(a, 1) * Bit(b, 1)
                + 4 * Bit(a, 2) * Bit(b, 2) + 8 * Bit(a, 3) * Bit(b, 3)]

XorNib == [a \in 0..15, b \in 0..15 |-> a + b - 2 * AndNib[a, b]]

And16(a, b) ==
    AndNib[a % 16, b % 16] + 16 * AndNib[(a \div 16) % 16, (b \div 16) % 16]
        + 256 * AndNib[(a \div 256) % 16, (b \div 256) % 16]
        + 4096 * AndNib[a \div 4096, b \div 4096]

Xor16(a, b) ==
    XorNib[a % 16, b % 16] + 16 * XorNib[(a \div 16) % 16, (b \div 16) % 16]
        + 256 * XorNib[(a \div 256) % 16, (b \div 256) % 16]
        + 4096 * XorNib[a \div 4096, b \div 4096]

\* x & y, x | y, x ^ y, ~x: on the operands reduced to 32 bits, the result a
\* signed 32-bit integer.
JsAnd(x, y) ==
    ToInt32(<<And16(ToUint32(x)[1], ToUint32(y)[1]), And16(x[2], y[2])>>)

JsXor(x, y) ==
    ToInt32(<<Xor16(ToUint32(x)[1], ToUint32(y)[1]), Xor16(x[2], y[2])>>)

JsOr(x, y) ==
    ToInt32(<<ToUint32(x)[1] + ToUint32(y)[1] - And16(ToUint32(x)[1], ToUint32(y)[1]),
              x[2] + y[2] - And16(x[2], y[2])>>)

JsNot(x) == ToInt32(<<65535 - ToUint32(x)[1], 65535 - x[2]>>)

\* x << s for s in 1..31: signed 32-bit result.
JsShl(x, s) ==
    ToInt32(IF s >= 16
            THEN <<(x[2] * (2 ^ (s - 16))) % Half, 0>>
            ELSE <<(ToUint32(x)[1] * (2 ^ s) + ((x[2] * (2 ^ s)) \div Half)) % Half,
                   (x[2] * (2 ^ s)) % Half>>)

\* Mutant: the sign-propagating shift x >> k in place of x >>> k.
JsShrU_Signed(x, k) ==
    IF k >= 16
    THEN <<IF ToInt32(x)[1] < 0 THEN -1 ELSE 0,
           (ToInt32(x)[1] \div (2 ^ (k - 16))) % Half>>
    ELSE <<ToInt32(x)[1] \div (2 ^ k),
           (x[2] \div (2 ^ k)) + (ToUint32(x)[1] % (2 ^ k)) * (2 ^ (16 - k))>>

\* x >>> k for k in 1..31: unsigned 32-bit result.
JsShrU(x, k) ==
    IF k >= 16
    THEN <<0, ToUint32(x)[1] \div (2 ^ (k - 16))>>
    ELSE <<ToUint32(x)[1] \div (2 ^ k),
           (x[2] \div (2 ^ k)) + (ToUint32(x)[1] % (2 ^ k)) * (2 ^ (16 - k))>>

\* (a << s) | (a >>> (32 - s))
RotateLeft(a, s) == JsOr(JsShl(a, s), JsShrU(a, 32 - s))

md5FF(a, b, c, d, x, s, t) ==
    LET a1 == JsAdd(a, JsAdd(JsAdd(JsOr(JsAnd(b, c), JsAnd(JsNot(b), d)), x), t))
    IN JsAdd(RotateLeft(a1, s), b)

md5GG(a, b, c, d, x, s, t) ==
    LET a1 == JsAdd(a, JsAdd(JsAdd(JsOr(JsAnd(b, d), JsAnd(c, JsNot(d))), x), t))
    IN JsAdd(RotateLeft(a1, s), b)

md5HH(a, b, c, d, x, s, t) ==
    LET a1 == JsAdd(a, JsAdd(JsAdd(JsXor(JsXor(b, c), d), x), t))
    IN JsAdd(RotateLeft(a1, s), b)

md5II(a, b, c, d, x, s, t) ==
    LET a1 == JsAdd(a, JsAdd(JsAdd(JsXor(c, JsOr(b, JsNot(d))), x), t))
    IN JsAdd(RotateLeft(a1, s), b)

\* The 64 assignments of md5Transform in source order: the helper called,
\* the registers (1 = a, 2 = b, 3 = c, 4 = d) passed as its first four
\* arguments, the first of which is assigned, the index into x, the shift
\* and the constant.
Md5Steps == <<
    [f |-> "FF", regs |-> <<1, 2, 3, 4>>, x |-> 0, s |-> 7, t |-> <<55146, 42104>>],
    [f |-> "FF", regs |-> <<4, 1, 2, 3>>, x |-> 1, s |-> 12, t |-> <<59591, 46934>>],
    [f |-> "FF", regs |-> <<3, 4, 1, 2>>, x |-> 2, s |-> 17, t |-> <<9248, 28891>>],
    [f |-> "FF", regs |-> <<2, 3, 4, 1>>, x |-> 3, s |-> 22, t |-> <<49597, 52974>>],
    [f |-> "FF", regs |-> <<1, 2, 3, 4>>, x |-> 4, s |-> 7, t |-> <<62844, 4015>>],
    [f |-> "FF", regs |-> <<4, 1, 2, 3>>, x |-> 5, s |-> 12, t |-> <<18311, 50730>>],
    [f |-> "FF", regs |-> <<3, 4, 1, 2>>, x |-> 6, s |-> 17, t |-> <<43056, 17939>>],
    [f |-> "FF", regs |-> <<2, 3, 4, 1>>, x |-> 7, s |-> 22, t |-> <<64838, 38145>>],
    [f |-> "FF", regs |-> <<1, 2, 3, 4>>, x |-> 8, s |-> 7, t |-> <<27008, 39128>>],
    [f |-> "FF", regs |-> <<4, 1, 2, 3>>, x |-> 9, s |-> 12, t |-> <<35652, 63407>>],
    [f |-> "FF", regs |-> <<3, 4, 1, 2>>, x |-> 10, s |-> 17, t |-> <<65535, 23473>>],
    [f |-> "FF", regs |-> <<2, 3, 4, 1>>, x |-> 11, s |-> 22, t |-> <<35164, 55230>>],
    [f |-> "FF", regs |-> <<1, 2, 3, 4>>, x |-> 12, s |-> 7, t |-> <<27536, 4386>>],
    [f |-> "FF", regs |-> <<4, 1, 2, 3>>, x |-> 13, s |-> 12, t |-> <<64920, 29075>>],
    [f |-> "FF", regs |-> <<3, 4, 1, 2>>, x |-> 14, s |-> 17, t |-> <<42617, 17294>>],
    [f |-> "FF", regs |-> <<2, 3, 4, 1>>, x |-> 15, s |-> 22, t |-> <<18868, 2081>>],
    [f |-> "GG", regs |-> <<1, 2, 3, 4>>, x |-> 1, s |-> 5, t |-> <<63006, 9570>>],
    [f |-> "GG", regs |-> <<4, 1, 2, 3>>, x |-> 6, s |-> 9, t |-> <<49216, 45888>>],
    [f |-> "GG", regs |-> <<3, 4, 1, 2>>, x |-> 11, s |-> 14, t |-> <<9822, 23121>>],
    [f |-> "GG", regs |-> <<2, 3, 4, 1>>, x |-> 0, s |-> 20, t |-> <<59830, 51114>>],
    [f |-> "GG", regs |-> <<1, 2, 3, 4>>, x |-> 5, s |-> 5, t |-> <<54831, 4189>>],
    [f |-> "GG", regs |-> <<4, 1, 2, 3>>, x |-> 10, s |-> 9, t |-> <<580, 5203>>],
    [f |-> "GG", regs |-> <<3, 4, 1, 2>>, x |-> 15, s |-> 14, t |-> <<55457, 59009>>],
    [f |-> "GG", regs |-> <<2, 3, 4, 1>>, x |-> 4, s |-> 20, t |-> <<59347, 64456>>],
    [f |-> "GG", regs |-> <<1, 2, 3, 4>>, x |-> 9, s |-> 5, t |-> <<8673, 52710>>],
    [f |-> "GG", regs |-> <<4, 1, 2, 3>>, x |-> 14, s |-> 9, t |-> <<49975, 2006>>],
    [f |-> "GG", regs |-> <<3, 4, 1, 2>>, x |-> 3, s |-> 14, t |-> <<62677, 3463>>],
    [f |-> "GG", regs |-> <<2, 3, 4, 1>>, x |-> 8, s |-> 20, t |-> <<17754, 5357>>],
    [f |-> "GG", regs |-> <<1, 2, 3, 4>>, x |-> 13, s |-> 5, t |-> <<43491, 59653>>],
    [f |-> "GG", regs |-> <<4, 1, 2, 3>>, x |-> 2, s |-> 9, t |-> <<64751, 41976>>],
    [f |-> "GG", regs |-> <<3, 4, 1, 2>>, x |-> 7, s |-> 14, t |-> <<26479, 729>>],
    [f |-> "GG", regs |-> <<2, 3, 4, 1>>, x |-> 12, s |-> 20, t |-> <<36138, 19594>>],
    [f |-> "HH", regs |-> <<1, 2, 3, 4>>, x |-> 5, s |-> 4, t |-> <<65530, 14658>>],
    [f |-> "HH", regs |-> <<4, 1, 2, 3>>, x |-> 8, s |-> 11, t |-> <<34673, 63105>>],
    [f |-> "HH", regs |-> <<3, 4, 1, 2>>, x |-> 11, s |-> 16, t |-> <<28061, 24866>>],
    [f |-> "HH", regs |-> <<2, 3, 4, 1>>, x |-> 14, s |-> 23, t |-> <<64997, 14348>>],
    [f |-> "HH", regs |-> <<1, 2, 3, 4>>, x |-> 1, s |-> 4, t |-> <<42174, 59972>>],
    [f |-> "HH", regs |-> <<4, 1, 2, 3>>, x |-> 4, s |-> 11, t |-> <<19422, 53161>>],
    [f |-> "HH", regs |-> <<3, 4, 1, 2>>, x |-> 7, s |-> 16, t |-> <<63163, 19296>>],
    [f |-> "HH", regs |-> <<2, 3, 4, 1>>, x |-> 10, s |-> 23, t |-> <<48831, 48240>>],
    [f |-> "HH", regs |-> <<1, 2, 3, 4>>, x |-> 13, s |-> 4, t |-> <<10395, 32454>>],
    [f |-> "HH", regs |-> <<4, 1, 2, 3>>, x |-> 0, s |-> 11, t |-> <<60065, 10234>>],
    [f |-> "HH", regs |-> <<3, 4, 1, 2>>, x |-> 3, s |-> 16, t |-> <<54511, 12421>>],
    [f |-> "HH", regs |-> <<2, 3, 4, 1>>, x |-> 6, s |-> 23, t |-> <<1160, 7429>>],
    [f |-> "HH", regs |-> <<1, 2, 3, 4>>, x |-> 9, s |-> 4, t |-> <<55764, 53305>>],
    [f |-> "HH", regs |-> <<4, 1, 2, 3>>, x |-> 12, s |-> 11, t |-> <<59099, 39397>>],
    [f |-> "HH", regs |-> <<3, 4, 1, 2>>, x |-> 15, s |-> 16, t |-> <<8098, 31992>>],
    [f |-> "HH", regs |-> <<2, 3, 4, 1>>, x |-> 2, s |-> 23, t |-> <<50348, 22117>>],
    [f |-> "II", regs |-> <<1, 2, 3, 4>>, x |-> 0, s |-> 6, t |-> <<62505, 8772>>],
    [f |-> "II", regs |-> <<4, 1, 2, 3>>, x |-> 7, s |-> 10, t |-> <<17194, 65431>>],
    [f |-> "II", regs |-> <<3, 4, 1, 2>>, x |-> 14, s |-> 15, t |-> <<43924, 9127>>],
    [f |-> "II", regs |-> <<2, 3, 4, 1>>, x |-> 5, s |-> 21, t |-> <<64659, 41017>>],
    [f |-> "II", regs |-> <<1, 2, 3, 4>>, x |-> 12, s |-> 6, t |-> <<25947, 22979>>],
    [f |-> "II", regs |-> <<4, 1, 2, 3>>, x |-> 3, s |-> 10, t |-> <<36620, 52370>>],
    [f |-> "II", regs |-> <<3, 4, 1, 2>>, x |-> 10, s |-> 15, t |-> <<65519, 62589>>],
    [f |-> "II", regs |-> <<2, 3, 4, 1>>, x |-> 1, s |-> 21, t |-> <<34180, 24017>>],
    [f |-> "II", regs |-> <<1, 2, 3, 4>>, x |-> 8, s |-> 6, t |-> <<28584, 32335>>],
    [f |-> "II", regs |-> <<4, 1, 2, 3>>, x |-> 15, s |-> 10, t |-> <<65068, 59104>>],
    [f |-> "II", regs |-> <<3, 4, 1, 2>>, x |-> 6, s |-> 15, t |-> <<41729, 17172>>],
    [f |-> "II", regs |-> <<2, 3, 4, 1>>, x |-> 13, s |-> 21, t |-> <<19976, 4513>>],
    [f |-> "II", regs |-> <<1, 2, 3, 4>>, x |-> 4, s |-> 6, t |-> <<63315, 32386>>],
    [f |-> "II", regs |-> <<4, 1, 2, 3>>, x |-> 11, s |-> 10, t |-> <<48442, 62005>>],
    [f |-> "II", regs |-> <<3, 4, 1, 2>>, x |-> 2, s |-> 15, t |-> <<10967, 53947>>],
    [f |-> "II", regs |-> <<2, 3, 4, 1>>, x |-> 9, s |-> 21, t |-> <<60294, 54161>>]
>>

\* The local variables a, b, c, d after assignment k of md5Transform.
Md5Step(regs, x, k) ==
    LET st == Md5Steps[k]
        a == regs[st.regs[1]]
        b == regs[st.regs[2]]
        c == regs[st.regs[3]]
        d == regs[st.regs[4]]
        v == CASE st.f = "FF" -> md5FF(a, b, c, d, x[st.x], st.s, st.t)
               [] st.f = "GG" -> md5GG(a, b, c, d, x[st.x], st.s, st.t)
               [] st.f = "HH" -> md5HH(a, b, c, d, x[st.x], st.s, st.t)
               [] OTHER -> md5II(a, b, c, d, x[st.x], st.s, st.t)
    IN [regs EXCEPT ![st.regs[1]] = v]

RECURSIVE Md5Rounds(_, _, _)
Md5Rounds(regs, x, k) ==
    IF k > Len(Md5Steps) THEN regs
    ELSE IF k % 4 # 1 THEN Md5Rounds(Md5Step(regs, x, k), x, k + 1)
    ELSE LET next == Md5Step(Md5Step(Md5Step(Md5Step(regs, x, k), x, k + 1),
                                     x, k + 2), x, k + 3)
         IN IF Len(next) = 4 THEN Md5Rounds(next, x, k + 4) ELSE next

\* The words x[0..15] of a block: four bytes each, little-endian, stored in
\* a Uint32Array.
BlockWords(block) ==
    [i \in 0..15 |-> <<block[4 * i + 3] + 256 * block[4 * i + 4],
                       block[4 * i + 1] + 256 * block[4 * i + 2]>>]

\* md5Transform(state, block): the Uint32Array state after state[i] += ...
md5Transform(words, block) ==
    LET regs == Md5Rounds(words, BlockWords(block), 1)
    IN [i \in 1..4 |-> ToUint32(JsAdd(words[i], regs[i]))]

\* state of md5Init: 0x67452301, 0xEFCDAB89, 0x98BADCFE, 0x10325476.
Md5InitWords == <<<<26437, 8961>>, <<61389, 43913>>, <<39098, 56574>>, <<4146, 21622>>>>

\* The state words of an accumulator: md5Transform applied, from the initial
\* words, to the blocks it has been applied to, in order.
RECURSIVE StateWords(_)
StateWords(blocks) ==
    IF blocks = <<>> THEN Md5InitWords
    ELSE md5Transform(StateWords(SubSeq(blocks, 1, Len(blocks) - 1)), blocks[Len(blocks)])

\* Mutant: the bytes of each word are written high byte first.
WordBytes_BigEndian(w) ==
    <<(ToInt32(w)[1] \div 256) % 256, ToInt32(w)[1] % 256, (w[2] \div 256) % 256,
      w[2] % 256>>

\* hash[i] & 0xFF, (hash[i] >> 8) & 0xFF, (hash[i] >> 16) & 0xFF,
\* (hash[i] >> 24) & 0xFF, the shifts being signed 32-bit shifts.
WordBytes(w) ==
    <<w[2] % 256, (w[2] \div 256) % 256, ToInt32(w)[1] % 256,
      (ToInt32(w)[1] \div 256) % 256>>

\* The last loop of md5Final: the four state words, four bytes each.
ResultBytes(words) ==
    WordBytes(words[1]) \o WordBytes(words[2]) \o WordBytes(words[3])
        \o WordBytes(words[4])

\* The 16 bytes md5Final returns, of the result the model carries as the
\* blocks transformed.
Md5Bytes(result) == ResultBytes(StateWords(result.input))

\* ------------------------------------------------------ algorithm registry
isAlgorithmSupported(algorithm) ==
    algorithm \in {"md5", "sha1", "sha256", "sha512",
                   "hmac-md5", "hmac-sha1", "hmac-sha256"}

\* algorithm.startsWith('hmac-'), over the names a call can be given.
StartsWithHmac(algorithm) ==
    algorithm \in {"hmac-md5", "hmac-sha1", "hmac-sha256", "hmac-sha512"}

\* algorithm.substring(5) for a name that starts with 'hmac-'.
Substring5(algorithm) ==
    CASE algorithm = "hmac-md5" -> "md5"
      [] algorithm = "hmac-sha1" -> "sha1"
      [] algorithm = "hmac-sha256" -> "sha256"
      [] OTHER -> "sha512"

\* cryptoAlgoMap of createHashInstance: None for a name it does not hold.
cryptoAlgoMap(algorithm) ==
    CASE algorithm = "sha1" -> Some("SHA-1")
      [] algorithm = "sha256" -> Some("SHA-256")
      [] algorithm = "sha512" -> Some("SHA-512")
      [] OTHER -> None

\* cryptoAlgoMap of calculateHMAC.
hmacAlgoMap(algorithm) ==
    CASE algorithm = "md5" -> Some("MD5")
      [] algorithm = "sha1" -> Some("SHA-1")
      [] algorithm = "sha256" -> Some("SHA-256")
      [] OTHER -> None

UnsupportedMessage == "unsupported algorithm"
ReadFailedMessage == "file read failed"
PlatformMessage == "platform primitive failed"

\* An accumulator: type "crypto" (buffer: None or Some(bytes)) or "js" (state).
NoState == [blocks |-> <<>>, count |-> 0, buffer |-> <<>>]
NoHashObj == [type |-> "none", algorithm |-> "", buffer |-> None, state |-> NoState]

\* Mutant: the check of the name is missing, every name gets the MD5 accumulator.
createJsHashInstance_AnyName(algorithm) ==
    [ok |-> TRUE, message |-> "",
     obj |-> [type |-> "js", algorithm |-> "MD5", buffer |-> None, state |-> md5Init]]

\* [ok, obj] or [ok |-> FALSE, message]: createJsHashInstance throws for
\* every name but md5.
createJsHashInstance(algorithm) ==
    IF algorithm = "md5"
    THEN [ok |-> TRUE, message |-> "",
          obj |-> [type |-> "js", algorithm |-> "MD5", buffer |-> None, state |-> md5Init]]
    ELSE [ok |-> FALSE, message |-> UnsupportedMessage, obj |-> NoHashObj]

createHashInstance(algorithm, crypto) ==
    IF ~crypto
    THEN createJsHashInstance(algorithm)
    ELSE IF cryptoAlgoMap(algorithm) # None
         THEN [ok |-> TRUE, message |-> "",
               obj |-> [type |-> "crypto", algorithm |-> cryptoAlgoMap(algorithm)[1],
                        buffer |-> None, state |-> NoState]]
         ELSE createJsHashInstance(algorithm)

\* Mutant: the new chunk is put in front of the buffer.
updateHash_Prepends(hashObj_, data) ==
    IF hashObj_.type = "crypto"
    THEN IF hashObj_.buffer = None
         THEN [hashObj_ EXCEPT !.buffer = Some(data)]
         ELSE [hashObj_ EXCEPT !.buffer = Some(data \o hashObj_.buffer[1])]
    ELSE IF hashObj_.type = "js" /\ hashObj_.algorithm = "MD5"
         THEN [hashObj_ EXCEPT !.state = md5Update(hashObj_.state, data)]
         ELSE hashObj_

updateHash(hashObj_, data) ==
    IF hashObj_.type = "crypto"
    THEN IF hashObj_.buffer = None
         THEN [hashObj_ EXCEPT !.buffer = Some(data)]
         ELSE [hashObj_ EXCEPT !.buffer = Some(hashObj_.buffer[1] \o data)]
    ELSE IF hashObj_.type = "js" /\ hashObj_.algorithm = "MD5"
         THEN [hashObj_ EXCEPT !.state = md5Update(hashObj_.state, data)]
         ELSE hashObj_

\* crypto.subtle.digest(algorithm, data): the digest as a term over its input.
Digest(algorithm, data) == [alg |-> algorithm, key |-> "", input |-> data]

\* finalizeHash: [ok, message, obj, result]. primitiveOk says whether
\* crypto.subtle.digest fulfils; digest of a null buffer is rejected
\* (TypeError) whatever the platform.
finalizeHash(hashObj_, primitiveOk) ==
    IF hashObj_.type = "crypto"
    THEN IF hashObj_.buffer # None /\ primitiveOk
         THEN [ok |-> TRUE, message |-> "", obj |-> hashObj_,
               result |-> Digest(hashObj_.algorithm, hashObj_.buffer[1])]
         ELSE [ok |-> FALSE, message |-> PlatformMessage, obj |-> hashObj_,
               result |-> Digest("", <<>>)]
    ELSE IF hashObj_.type = "js" /\ hashObj_.algorithm = "MD5"
         THEN [ok |-> TRUE, message |-> "",
               obj |-> [hashObj_ EXCEPT !.state = md5Final(hashObj_.state).state],
               result |-> md5Final(hashObj_.state).result]
         ELSE [ok |-> FALSE, message |-> "unknown hash object type", obj |-> hashObj_,
               result |-> Digest("", <<>>)]

\* bufferToHex(hash, resultFormat) of a digest: the hex string as a term.
HexOf(digest) == [kind |-> "hex", message |-> "", digest |-> digest]

\* The string recorded for a failed algorithm: the failure prefix and error.message.
FailureMarker(message) ==
    [kind |-> "failed", message |-> message, digest |-> Digest("", <<>>)]

\* Mutant: a missing key is encoded as it stands (null) instead of ''.
Sign_KeyAsGiven(algorithm, key, data) ==
    [alg |-> "HMAC " \o algorithm, key |-> (IF key = None THEN "null" ELSE key[1]),
     input |-> data]

\* crypto.subtle.sign('HMAC', key, data) with key = hmacKey || ''.
Sign(algorithm, key, data) ==
    [alg |-> "HMAC " \o algorithm, key |-> (IF key = None THEN "" ELSE key[1]),
     input |-> data]

\* Mutant: every assignment adds an entry, also for a key already present.
Put_Appends(res, key, val) == Append(res, [key |-> key, val |-> val])

\* results[algorithm] = value on a JS object kept as an ordered list of
\* [key, val]: a new key is appended, an existing key keeps its position.
Put(res, key, val) ==
    IF \E i \in 1..Len(res) : res[i].key = key
    THEN [i \in 1..Len(res) |-> IF res[i].key = key THEN [key |-> key, val |-> val] ELSE res[i]]
    ELSE Append(res, [key |-> key, val |-> val])

Get(res, key) == (CHOOSE i \in 1..Len(res) : res[i].key = key)
HasKey(res, key) == \E i \in 1..Len(res) : res[i].key = key
ValueOf(res, key) == res[Get(res, key)].val

\* ----------------------------------------------------------------- inputs
\* The names a request is drawn from: the custom accumulator, a delegated
\* digest, a keyed digest and a name outside the supported list.
RequestedNames == {"md5", "sha256", "hmac-sha256", "crc32"}
HmacKeys == {None, Some("key")}
FileSeed == 7

RECURSIVE SeqsUpTo(_, _)
SeqsUpTo(S, n) ==
    IF n = 0 THEN {<<>>}
    ELSE SeqsUpTo(S, n - 1) \cup
         {Append(q, x) : q \in {t \in SeqsUpTo(S, n - 1) : Len(t) = n - 1}, x \in S}

NoRead == [off |-> 0, len |-> 0]

\* DEFAULT_SETTINGS, the two settings the hash engine and the file handler read.
DEFAULT_SETTINGS == [autoCalculate |-> FALSE, resultFormat |-> "lowercase"]

\* A JavaScript value a setting can hold: a number that is an integer, NaN,
\* a string or null.
JsNumber(n) == [type |-> "number", num |-> n, str |-> <<>>]

NaN == [type |-> "NaN", num |-> 0, str |-> <<>>]

JsString(str) == [type |-> "string", num |-> 0, str |-> str]

JsNull == [type |-> "null", num |-> 0, str |-> <<>>]

\* DEFAULT_SETTINGS.chunkSize
DefaultChunkSize == 524288

\* localStorage holds no item 'hashCalculatorSettings'.
NoItem == [kind |-> "absent", chunkSize |-> <<>>]

\* SettingsManager as constructed, localStorage without the item.
SetIdle ==
    /\ chunkSetting = JsNumber(DefaultChunkSize)
    /\ storedSettings = NoItem
    /\ settingsCalls = 0

\* md5Init has just returned and nothing was fed.
CntIdle ==
    /\ md5Count = <<0, 0>>
    /\ md5Total = <<0, 0>>
    /\ md5Calls = 0
    /\ md5Length = <<>>

\* bufferToHex has not been called.
HexIdle ==
    /\ hexBuffer = <<>>
    /\ hexFormat = "lowercase"
    /\ hexString = None

\* The page as loaded: no file selected, nothing computed, default settings.
UiIdle ==
    /\ selectedFiles = <<>>
    /\ calculationResults = <<>>
    /\ currentSettings = DEFAULT_SETTINGS
    /\ calcDisabled = TRUE
    /\ runs = <<>>
    /\ uiLog = <<>>
    /\ comparison = <<>>
    /\ matches = None
    /\ userEvents = 0

\* No calculateMultipleHashes call of the hash engine's own specifications.
HashIdle ==
    /\ file = <<>>
    /\ chunkSize = 1
    /\ algorithms = <<>>
    /\ cryptoSupported = TRUE
    /\ hmacKey = None
    /\ pc = "idle"
    /\ idx = 1
    /\ mode = "none"
    /\ rd = NoRead
    /\ offset = 0
    /\ processedBytes = 0
    /\ hashObj = NoHashObj
    /\ chunks = <<>>
    /\ results = <<>>
    /\ report = None
    /\ reads = <<>>
    /\ fed = <<>>
    /\ events = <<>>
    /\ outcomes = <<>>
    /\ ioFailed = FALSE
    /\ finals = <<>>

InitLocals ==
    /\ HexIdle
    /\ UiIdle
    /\ SetIdle
    /\ CntIdle
    /\ pc = "loop"
    /\ idx = 1
    /\ mode = "none"
    /\ rd = NoRead
    /\ offset = 0
    /\ processedBytes = 0
    /\ hashObj = NoHashObj
    /\ chunks = <<>>
    /\ results = <<>>
    /\ report = None
    /\ reads = <<>>
    /\ fed = <<>>
    /\ events = <<>>
    /\ outcomes = <<>>
    /\ ioFailed = FALSE
    /\ finals = <<>>

\* calculateMultipleHashes(file, algorithms, {chunkSize, hmacKey, onProgress})
\* has just been called.
Init ==
    /\ file \in {MkFile(n, FileSeed) : n \in 0..MaxFileLen}
    /\ chunkSize \in 1..MaxChunk
    /\ algorithms \in (SeqsUpTo(RequestedNames, MaxAlgs) \ {<<>>})
    /\ cryptoSupported \in BOOLEAN
    /\ hmacKey \in HmacKeys
    /\ InitLocals

\* ------------------------------------------------- calculateMultipleHashes
CurrentAlgorithm == algorithms[idx]

\* The wrapper calculateMultipleHashes passes to calculateHash forwards a
\* progress event to options.onProgress only for the first algorithm's name.
ForwardsProgress(algorithm, algs) == algorithm = algs[1]

Deliver(ev) ==
    events' = IF ForwardsProgress(CurrentAlgorithm, algorithms)
              THEN Append(events, ev) ELSE events

\* Mutant: the try block encloses the loop, so a failure ends it.
IdxAfterCatch_EndsLoop(i, n) == n + 1

\* The position of the for..of loop after the catch block has recorded a failure.
IdxAfterCatch(i, n) == i + 1

\* Mutant: the slice ends one byte late.
ChunkRange_OneMore(off, size, total) ==
    [off |-> off, len |-> Min(off + size + 1, total) - off]

\* file.slice(off, off + size) handed to reader.readAsArrayBuffer.
ChunkRange(off, size, total) == [off |-> off, len |-> Min(off + size, total) - off]

\* Mutant: the offset is advanced twice per chunk.
AdvanceOffset_Twice(off, n) == off + n + n

\* Mutant: the offset is left where it was.
AdvanceOffset_Stays(off, n) == off

\* The offset after a chunk of n bytes has been consumed.
AdvanceOffset(off, n) == off + n

\* Mutant: a further read is issued when the offset has reached the file size.
MoreToRead_Inclusive(off, total) == off <= total

\* Mutant: the traversal stops while one byte of the file is still unread.
MoreToRead_StopsEarly(off, total) == off + 1 < total

\* if (offset < file.size): another chunk is read, else the traversal ends.
MoreToRead(off, total) == off < total

IssueRead(range) ==
    /\ rd' = range
    /\ reads' = Append(reads, [alg |-> idx, off |-> range.off, len |-> range.len])
    /\ pc' = "reading"

\* The bytes the outstanding read delivers in e.target.result.
ReadResult == Slice(file, rd.off, rd.off + rd.len)

\* Mutant: the rejection is not caught, calculateMultipleHashes rejects.
Rejected_Propagates(message) ==
    /\ results' = results
    /\ outcomes' = Append(outcomes, [kind |-> "rejected", message |-> message])
    /\ idx' = idx
    /\ pc' = "failed"
    /\ mode' = "none"
    /\ rd' = NoRead

\* calculateHash rejected: the catch block of calculateMultipleHashes records
\* the failure marker and the loop goes on.
Rejected(message) ==
    /\ results' = Put(results, CurrentAlgorithm, FailureMarker(message))
    /\ outcomes' = Append(outcomes, [kind |-> "rejected", message |-> message])
    /\ idx' = IdxAfterCatch(idx, Len(algorithms))
    /\ pc' = "loop"
    /\ mode' = "none"
    /\ rd' = NoRead

\* calculateHash resolved with {algorithm, hash, duration}.
Resolved(hash) ==
    /\ results' = Put(results, CurrentAlgorithm, hash)
    /\ outcomes' = Append(outcomes, [kind |-> "resolved", message |-> ""])
    /\ idx' = idx + 1
    /\ pc' = "loop"
    /\ mode' = "none"
    /\ rd' = NoRead

InLoop == pc = "loop" /\ idx <= Len(algorithms)

\* calculateHash, lines 48-53: the name is not in the supported list.
StartUnsupported ==
    /\ InLoop
    /\ ~isAlgorithmSupported(CurrentAlgorithm)
    /\ Rejected(UnsupportedMessage)
    /\ UNCHANGED <<inputs, idleVars, offset, processedBytes, hashObj, chunks, report, reads,
                   fed, events, ioFailed, finals>>

\* calculateHash -> calculateHMAC up to importKey: crypto.subtle is absent,
\* the base algorithm is not in the map, or importKey rejects.
StartHmacFails ==
    /\ InLoop
    /\ isAlgorithmSupported(CurrentAlgorithm)
    /\ StartsWithHmac(CurrentAlgorithm)
    /\ Rejected(IF hmacAlgoMap(Substring5(CurrentAlgorithm)) = None
                THEN UnsupportedMessage ELSE PlatformMessage)
    /\ UNCHANGED <<inputs, idleVars, offset, processedBytes, hashObj, chunks, report, reads,
                   fed, events, ioFailed, finals>>

\* calculateHash -> calculateHMAC -> readFileAsArrayBuffer: the first read.
StartHmacReads ==
    /\ InLoop
    /\ isAlgorithmSupported(CurrentAlgorithm)
    /\ StartsWithHmac(CurrentAlgorithm)
    /\ hmacAlgoMap(Substring5(CurrentAlgorithm)) # None
    /\ cryptoSupported
    /\ IF Len(file) <= chunkSize
       THEN /\ mode' = "hmacSmall"
            /\ IssueRead([off |-> 0, len |-> Len(file)])
       ELSE /\ mode' = "hmacChunk"
            /\ IssueRead(ChunkRange(0, chunkSize, Len(file)))
    /\ offset' = 0
    /\ chunks' = <<>>
    /\ UNCHANGED <<inputs, idleVars, idx, processedBytes, hashObj, results, report, fed, events,
                   outcomes, ioFailed, finals>>

\* calculateHash, line 75: createHashInstance throws.
StartCreateFails ==
    /\ InLoop
    /\ isAlgorithmSupported(CurrentAlgorithm)
    /\ ~StartsWithHmac(CurrentAlgorithm)
    /\ ~createHashInstance(CurrentAlgorithm, cryptoSupported).ok
    /\ Rejected(createHashInstance(CurrentAlgorithm, cryptoSupported).message)
    /\ UNCHANGED <<inputs, idleVars, offset, processedBytes, hashObj, chunks, report, reads,
                   fed, events, ioFailed, finals>>

\* calculateHash, lines 75-161: the accumulator is created and the first read
\* issued, of the whole file (small file) or of the first chunk.
StartHash ==
    /\ InLoop
    /\ isAlgorithmSupported(CurrentAlgorithm)
    /\ ~StartsWithHmac(CurrentAlgorithm)
    /\ createHashInstance(CurrentAlgorithm, cryptoSupported).ok
    /\ hashObj' = createHashInstance(CurrentAlgorithm, cryptoSupported).obj
    /\ processedBytes' = 0
    /\ offset' = 0
    /\ IF Len(file) <= chunkSize
       THEN /\ mode' = "small"
            /\ IssueRead([off |-> 0, len |-> Len(file)])
       ELSE /\ mode' = "chunk"
            /\ IssueRead(ChunkRange(0, chunkSize, Len(file)))
    /\ UNCHANGED <<inputs, idleVars, idx, chunks, results, report, fed, events, outcomes,
                   ioFailed, finals>>

LogFed == fed' = Append(fed, [alg |-> idx, off |-> rd.off, len |-> rd.len])

\* finalizeHash was called on the accumulator before, after bytes bytes in
\* updates updateHash calls, and returned or threw fin.
LogFinal(fin, before, bytes, updates) ==
    finals' = Append(finals, [alg |-> idx, ok |-> fin.ok, result |-> fin.result,
                              before |-> before, after |-> fin.obj,
                              fedBytes |-> bytes, updates |-> updates])

\* The number of updateHash calls made so far by the call for algorithms[idx].
UpdatesSoFar == Cardinality({j \in 1..Len(fed) : fed[j].alg = idx})

\* reader.onload of the small-file path, lines 79-101.
OnLoadSmall ==
    /\ pc = "reading" /\ mode = "small"
    /\ LogFed
    /\ \E primitiveOk \in BOOLEAN :
         LET fin == finalizeHash(updateHash(hashObj, ReadResult), primitiveOk)
         IN /\ primitiveOk \/ hashObj.type = "crypto"
            /\ hashObj' = fin.obj
            /\ LogFinal(fin, updateHash(hashObj, ReadResult), Len(ReadResult),
                        UpdatesSoFar + 1)
            /\ IF fin.ok
               THEN /\ Deliver([processed |-> Len(file), total |-> Len(file),
                                percentage |-> 100])
                    /\ Resolved(HexOf(fin.result))
               ELSE /\ events' = events
                    /\ Rejected(fin.message)
    /\ UNCHANGED <<inputs, idleVars, offset, processedBytes, chunks, report,
                   reads, ioFailed>>

\* reader.onload of processChunk, lines 117-151.
OnLoadChunk ==
    /\ pc = "reading" /\ mode = "chunk"
    /\ LogFed
    /\ LET data == ReadResult
           updated == updateHash(hashObj, data)
           processed1 == processedBytes + Len(data)
           offset1 == AdvanceOffset(offset, Len(data))
       IN /\ processedBytes' = processed1
          /\ offset' = offset1
          /\ Deliver([processed |-> processed1, total |-> Len(file),
                      percentage |-> Percentage(processed1, Len(file))])
          /\ IF MoreToRead(offset1, Len(file))
             THEN /\ hashObj' = updated
                  /\ mode' = mode
                  /\ IssueRead(ChunkRange(offset1, chunkSize, Len(file)))
                  /\ UNCHANGED <<results, outcomes, idx, finals>>
             ELSE /\ reads' = reads
                  /\ \E primitiveOk \in BOOLEAN :
                       LET fin == finalizeHash(updated, primitiveOk)
                       IN /\ primitiveOk \/ hashObj.type = "crypto"
                          /\ hashObj' = fin.obj
                          /\ LogFinal(fin, updated, processed1, UpdatesSoFar + 1)
                          /\ IF fin.ok THEN Resolved(HexOf(fin.result))
                                       ELSE Rejected(fin.message)
    /\ UNCHANGED <<inputs, idleVars, chunks, report, ioFailed>>

\* calculateHMAC after readFileAsArrayBuffer resolved with buffer: sign.
SignAndSettle(buffer, signOk) ==
    IF signOk
    THEN Resolved(HexOf(Sign(hmacAlgoMap(Substring5(CurrentAlgorithm))[1], hmacKey, buffer)))
    ELSE Rejected(PlatformMessage)

\* reader.onload of readFileAsArrayBuffer, small file, lines 379-388.
OnLoadHmacSmall ==
    /\ pc = "reading" /\ mode = "hmacSmall"
    /\ Deliver([processed |-> Len(file), total |-> Len(file), percentage |-> 100])
    /\ \E signOk \in BOOLEAN : SignAndSettle(ReadResult, signOk)
    /\ UNCHANGED <<inputs, idleVars, offset, processedBytes, hashObj, chunks, report, reads, fed,
                   ioFailed, finals>>

RECURSIVE Concat(_)
Concat(seqs) == IF seqs = <<>> THEN <<>> ELSE Head(seqs) \o Concat(Tail(seqs))

\* reader.onload of readNextChunk, lines 406-434.
OnLoadHmacChunk ==
    /\ pc = "reading" /\ mode = "hmacChunk"
    /\ LET chunks1 == Append(chunks, ReadResult)
           offset1 == AdvanceOffset(offset, rd.len)
       IN /\ chunks' = chunks1
          /\ offset' = offset1
          /\ Deliver([processed |-> offset1, total |-> Len(file),
                      percentage |-> Percentage(offset1, Len(file))])
          /\ IF MoreToRead(offset1, Len(file))
             THEN /\ mode' = mode
                  /\ IssueRead(ChunkRange(offset1, chunkSize, Len(file)))
                  /\ UNCHANGED <<results, outcomes, idx>>
             ELSE /\ reads' = reads
                  /\ \E signOk \in BOOLEAN : SignAndSettle(Concat(chunks1), signOk)
    /\ UNCHANGED <<inputs, idleVars, processedBytes, hashObj, report, fed, ioFailed, finals>>

\* reader.onerror (lines 103-105, 153-155, 390-392, 436-438): the read failed.
OnError ==
    /\ pc = "reading"
    /\ ioFailed' = TRUE
    /\ Rejected(ReadFailedMessage)
    /\ UNCHANGED <<inputs, idleVars, offset, processedBytes, hashObj, chunks, report, reads,
                   fed, events, finals>>

\* calculateMultipleHashes, lines 199-204: the loop is over, the report returned.
Return ==
    /\ pc = "loop" /\ idx > Len(algorithms)
    /\ report' = Some([filename |-> "file", size |-> Len(file), hashValues |-> results])
    /\ pc' = "done"
    /\ UNCHANGED <<inputs, idleVars, idx, mode, rd, offset, processedBytes, hashObj, chunks,
                   results, reads, fed, events, outcomes, ioFailed, finals>>

Next ==
    \/ StartUnsupported
    \/ StartHmacFails
    \/ StartHmacReads
    \/ StartCreateFails
    \/ StartHash
    \/ OnLoadSmall
    \/ OnLoadChunk
    \/ OnLoadHmacSmall
    \/ OnLoadHmacChunk
    \/ OnError
    \/ Return

Spec == Init /\ [][Next]_vars

\* ----------------------------------------------------- SpecBig: long files
\* Chunk sizes below, at and above the 64-byte block, and above every file.
BigChunkSizes == {1, 7, 63, 64, 65, 65536}

InitBig ==
    /\ file \in {MkFile(n, FileSeed) : n \in 0..MaxBigLen}
    /\ chunkSize \in BigChunkSizes
    /\ algorithms \in {<<a>> : a \in RequestedNames}
    /\ cryptoSupported \in BOOLEAN
    /\ hmacKey = None
    /\ InitLocals

SpecBig == InitBig /\ [][Next]_vars

\* ------------------------------------- SpecMd5: MD5 over the test inputs
\* The bytes of "abc" and of "1234567890" eight times over (80 bytes).
Md5Abc == <<97, 98, 99>>
Md5Digits == [i \in 1..80 |-> IF i % 10 = 0 THEN 48 ELSE 48 + (i % 10)]

\* Chunk sizes below, at and above the block size.
Md5ChunkSizes == {7, 64, 65536}

InitMd5 ==
    /\ file \in {MkFile(n, FileSeed) : n \in 0..MaxMd5Len} \cup {Md5Abc, Md5Digits}
    /\ chunkSize \in Md5ChunkSizes
    /\ algorithms \in {<<a>> : a \in RequestedNames}
    /\ cryptoSupported \in BOOLEAN
    /\ hmacKey = None
    /\ InitLocals

SpecMd5 == InitMd5 /\ [][Next]_vars

\* ------------------------------- SpecLive: one calculateHash, reads complete
\* calculateMultipleHashes with one algorithm: a single calculateHash call.
InitLive ==
    /\ file \in {MkFile(n, FileSeed) : n \in 0..MaxFileLen}
    /\ chunkSize \in 1..MaxChunk
    /\ algorithms \in {<<a>> : a \in RequestedNames}
    /\ cryptoSupported \in BOOLEAN
    /\ hmacKey \in HmacKeys
    /\ InitLocals

\* A read that was issued completes: its load or its error callback runs.
ReadCompletes ==
    OnLoadSmall \/ OnLoadChunk \/ OnLoadHmacSmall \/ OnLoadHmacChunk \/ OnError

\* Every issued read completes, and the code between two awaits runs on.
SpecLive == InitLive /\ [][Next]_vars /\ WF_vars(ReadCompletes) /\ WF_vars(Next)

\* ------------------------------------ SpecAcc: the accumulator driven directly
\* The lengths of the chunks a caller passes to updateHash.
AccChunkLens == {0, 1, 55, 56, 64, 65, 130}

\* createHashInstance has returned the accumulator; file is the byte stream
\* the caller feeds from, offset the number of bytes fed so far.
InitAcc ==
    /\ file = MkFile(MaxAccLen, FileSeed)
    /\ chunkSize = 1
    /\ algorithms \in {<<"md5">>, <<"sha256">>}
    /\ cryptoSupported = TRUE
    /\ hmacKey = None
    /\ pc = "acc"
    /\ idx = 1
    /\ mode = "none"
    /\ rd = NoRead
    /\ offset = 0
    /\ processedBytes = 0
    /\ hashObj = createHashInstance(algorithms[1], cryptoSupported).obj
    /\ chunks = <<>>
    /\ results = <<>>
    /\ report = None
    /\ reads = <<>>
    /\ fed = <<>>
    /\ events = <<>>
    /\ outcomes = <<>>
    /\ ioFailed = FALSE
    /\ finals = <<>>
    /\ HexIdle
    /\ UiIdle
    /\ SetIdle
    /\ CntIdle

\* updateHash(hashObj, data) with the next n bytes of the stream.
AccUpdate ==
    /\ pc = "acc"
    /\ Len(fed) < MaxUpdates
    /\ \E n \in AccChunkLens :
         /\ offset + n <= Len(file)
         /\ hashObj' = updateHash(hashObj, Slice(file, offset, offset + n))
         /\ offset' = offset + n
         /\ fed' = Append(fed, [alg |-> idx, off |-> offset, len |-> n])
    /\ UNCHANGED <<inputs, idleVars, pc, idx, mode, rd, processedBytes, chunks, results, report,
                   reads, events, outcomes, ioFailed, finals>>

\* finalizeHash(hashObj): what it returned or threw, and the accumulator
\* before and after the call.
AccFinalize ==
    /\ pc = "acc"
    /\ Len(finals) < MaxFinalize
    /\ \E primitiveOk \in BOOLEAN :
         LET fin == finalizeHash(hashObj, primitiveOk)
         IN /\ primitiveOk \/ hashObj.type = "crypto"
            /\ hashObj' = fin.obj
            /\ LogFinal(fin, hashObj, offset, Len(fed))
    /\ UNCHANGED <<inputs, idleVars, pc, idx, mode, rd, offset, processedBytes, chunks, results,
                   report, reads, fed, events, outcomes, ioFailed>>

NextAcc == AccUpdate \/ AccFinalize

SpecAcc == InitAcc /\ [][NextAcc]_vars

\* ------------------------------------------------- SpecHex: bufferToHex
\* Byte values on both sides of 16, the smallest and the largest, with and
\* without letters among their digits.
HexBytes == {0, 9, 10, 15, 16, 31, 160, 171, 255}

\* The digest lengths of MD5, SHA-1, SHA-256 and SHA-512.
DigestLengths == {16, 20, 32, 64}

\* The format argument: the two settings, and a value that is neither.
HexFormats == {"lowercase", "uppercase", "other"}

InitHex ==
    /\ hexBuffer \in SeqsUpTo(HexBytes, MaxHexLen)
                        \cup {MkFile(n, 250) : n \in DigestLengths}
    /\ hexFormat \in HexFormats
    /\ hexString = None
    /\ HashIdle
    /\ UiIdle
    /\ SetIdle
    /\ CntIdle

CallBufferToHex ==
    /\ hexString = None
    /\ hexString' = Some(bufferToHex(hexBuffer, hexFormat))
    /\ UNCHANGED <<hashVars, uiVars, setVars, cntVars, hexBuffer, hexFormat>>

NextHex == CallBufferToHex

SpecHex == InitHex /\ [][NextHex]_vars

\* ======================================================================
\* Properties
\* ======================================================================
\* The number of reads one complete traversal of the file takes.
NumChunks(total, size) == IF total <= size THEN 1 ELSE (total + size - 1) \div size

ReadsOf(i) == SelectSeq(reads, LAMBDA r : r.alg = i)
FedOf(i) == SelectSeq(fed, LAMBDA r : r.alg = i)
IsPrefix(p, q) == Len(p) <= Len(q) /\ SubSeq(q, 1, Len(p)) = p

Distinct(q) == \A i, j \in 1..Len(q) : i # j => q[i] # q[j]

SomeResolved == \E i \in 1..Len(outcomes) : outcomes[i].kind = "resolved"

AllResolved ==
    /\ Len(outcomes) = Len(algorithms)
    /\ \A i \in 1..Len(outcomes) : outcomes[i].kind = "resolved"

\* The standard MD5 padding of a message, cut into 64-byte blocks: the
\* message, 0x80, zeros up to 56 modulo 64, the bit length in 8 bytes
\* little-endian (of a message shorter than 2^28 bytes, whose bit length
\* fills the low four bytes only).
PaddedMessage(msg) ==
    msg \o <<128>> \o Zeros((55 - Len(msg)) % BlockSize)
        \o [i \in 1..8 |-> IF i <= 4 THEN ((8 * Len(msg)) \div (256 ^ (i - 1))) % 256
                                      ELSE 0]

PaddedBlocks(msg) ==
    [k \in 1..(Len(PaddedMessage(msg)) \div BlockSize) |->
        SubSeq(PaddedMessage(msg), BlockSize * (k - 1) + 1, BlockSize * k)]

\* The digest of the whole file under a supported algorithm, stated without
\* chunks: what the platform primitive is applied to, or the MD5 blocks.
RefDigest(algorithm) ==
    CASE algorithm = "md5" -> [alg |-> "MD5", key |-> "", input |-> PaddedBlocks(file)]
      [] StartsWithHmac(algorithm) ->
            [alg |-> "HMAC " \o hmacAlgoMap(Substring5(algorithm))[1],
             key |-> (IF hmacKey = None THEN "" ELSE hmacKey[1]), input |-> file]
      [] OTHER -> [alg |-> cryptoAlgoMap(algorithm)[1], key |-> "", input |-> file]

\* The last calculateHash call made for the name algorithms[i].
LastCallOf(i) ==
    CHOOSE j \in 1..Len(outcomes) :
        /\ algorithms[j] = algorithms[i]
        /\ \A k \in (j + 1)..Len(outcomes) : algorithms[k] # algorithms[i]

C2_ReadFailureAborts == ioFailed => report = None

\* ---------------------------------------------------------------- C3
\* C3: when the report is returned every requested algorithm has been
\* computed, whatever failed before it; the entry of an algorithm whose
\* computation failed is the failure marker carrying the error's message,
\* and the entry of every other algorithm is the digest of the whole file
\* under that algorithm, which does not depend on what else was requested.
C3_FailureIsolated ==
    pc = "done" =>
        /\ Len(outcomes) = Len(algorithms)
        /\ \A i \in 1..Len(algorithms) :
             /\ HasKey(results, algorithms[i])
             /\ LET o == outcomes[LastCallOf(i)]
                    v == ValueOf(results, algorithms[i])
                IN IF o.kind = "rejected"
                   THEN v = FailureMarker(o.message)
                   ELSE v.kind = "hex" /\ v.digest = RefDigest(algorithms[i])

\* The first algorithm failed and the second was computed all the same.
C3_Witness ==
    /\ pc = "done" /\ Len(algorithms) = 2
    /\ outcomes[1].kind = "rejected" /\ outcomes[2].kind = "resolved"
    /\ ValueOf(results, algorithms[1]).kind = "failed"
    /\ ValueOf(results, algorithms[2]).kind = "hex"

\* ---------------------------------------------------------------- C4
\* C4: a calculateHash that resolved has left the accumulator in a state
\* that depends on the file alone, not on the chunk size: for MD5 the blocks
\* given to md5Transform are exactly the blocks of the padded file (so the
\* whole blocks and the bytes left in the partial buffer at finalize are the
\* same for every chunk size) and count is the file's bit length; for a
\* delegated algorithm the buffer digested is the file.
C4_ChunkSizeInvariant ==
    (/\ Len(outcomes) = 1 /\ outcomes[1].kind = "resolved"
     /\ ~StartsWithHmac(algorithms[1]))
        => /\ hashObj.type \in {"js", "crypto"}
           /\ hashObj.type = "js" =>
                /\ hashObj.state.blocks = PaddedBlocks(file)
                /\ hashObj.state.count = 8 * Len(file)
           /\ hashObj.type = "crypto" => hashObj.buffer = Some(file)

\* MD5 over a file of more than two blocks, read in chunks of 7 bytes, which
\* straddle the block boundaries.
C4_Witness ==
    /\ Len(outcomes) = 1 /\ outcomes[1].kind = "resolved"
    /\ hashObj.type = "js"
    /\ chunkSize = 7
    /\ Len(file) > 2 * BlockSize
    /\ Len(fed) = NumChunks(Len(file), chunkSize)

\* ---------------------------------------------------------------- C5
\* C5: in every traversal (of calculateHash and of readFileAsArrayBuffer)
\* the k-th read starts at (k-1)*chunkSize, the next read starts where the
\* previous one ended, every read has chunkSize bytes unless it ends at the
\* end of the file, and when the traversal has resolved every byte of the
\* file lies in exactly one of its reads.
C5_Ranges ==
    /\ \A j \in 1..Len(reads) :
         LET k == Cardinality({m \in 1..(j - 1) : reads[m].alg = reads[j].alg})
         IN /\ reads[j].off = k * chunkSize
            /\ reads[j].len <= chunkSize
            /\ reads[j].len = chunkSize \/ reads[j].off + reads[j].len = Len(file)
            /\ reads[j].off + reads[j].len <= Len(file)
    /\ \A j \in 1..(Len(reads) - 1) :
         reads[j].alg = reads[j + 1].alg
            => reads[j + 1].off = reads[j].off + reads[j].len
    /\ \A i \in 1..Len(outcomes) :
         outcomes[i].kind = "resolved" =>
            \A p \in 0..(Len(file) - 1) :
                Cardinality({j \in 1..Len(reads) :
                    /\ reads[j].alg = i
                    /\ reads[j].off <= p
                    /\ p < reads[j].off + reads[j].len}) = 1

\* A resolved traversal of two reads, the last one shorter than the chunk size.
C5_Witness ==
    /\ Len(outcomes) >= 1 /\ outcomes[1].kind = "resolved"
    /\ Len(ReadsOf(1)) = 2
    /\ ReadsOf(1)[1].len = chunkSize
    /\ ReadsOf(1)[2].len < chunkSize
    /\ ReadsOf(1)[2].len > 0

\* ---------------------------------------------------------------- C6
\* C6 as stated, for a list of different algorithms of which at least one
\* was computed over the file: the processed counts delivered to the
\* caller's onProgress never decrease and never exceed the file size, and
\* when the report is returned exactly one event, the last, carries the
\* file size.
C6_ProgressReachesTotal ==
    /\ \A j \in 1..Len(events) : events[j].processed <= Len(file)
    /\ \A j \in 1..(Len(events) - 1) : events[j].processed <= events[j + 1].processed
    /\ (pc = "done" /\ Distinct(algorithms) /\ SomeResolved) =>
         /\ Len(events) >= 1
         /\ events[Len(events)].processed = Len(file)
         /\ Cardinality({j \in 1..Len(events) : events[j].processed = Len(file)}) = 1

\* ---------------------------------------------------------------- C7
\* calculateHash(file, algorithm) run alone to its result, as a function of
\* the inputs: the accumulator created, fed chunk after chunk and finalized
\* (or, for HMAC, the chunks collected and signed).
RECURSIVE FeedChunks(_, _)
FeedChunks(obj, off) ==
    LET range == ChunkRange(off, chunkSize, Len(file))
        data == Slice(file, range.off, range.off + range.len)
        off1 == AdvanceOffset(off, Len(data))
    IN IF MoreToRead(off1, Len(file)) THEN FeedChunks(updateHash(obj, data), off1)
                           ELSE updateHash(obj, data)

RECURSIVE CollectChunks(_)
CollectChunks(off) ==
    LET range == ChunkRange(off, chunkSize, Len(file))
        data == Slice(file, range.off, range.off + range.len)
        off1 == AdvanceOffset(off, range.len)
    IN IF MoreToRead(off1, Len(file)) THEN data \o CollectChunks(off1) ELSE data

SoloHash(algorithm) ==
    IF StartsWithHmac(algorithm)
    THEN Sign(hmacAlgoMap(Substring5(algorithm))[1], hmacKey,
              IF Len(file) <= chunkSize THEN file ELSE CollectChunks(0))
    ELSE LET obj == createHashInstance(algorithm, cryptoSupported).obj
         IN finalizeHash(IF Len(file) <= chunkSize THEN updateHash(obj, file)
                                                   ELSE FeedChunks(obj, 0),
                         TRUE).result

\* C7: the digest recorded for an algorithm, when it is requested alone and
\* when it is requested together with another algorithm (before it or after
\* it, the same one or a different one), is the digest of that algorithm
\* computed alone over the file.
C7_TogetherEqualsAlone ==
    pc = "done" =>
        \A i \in 1..Len(algorithms) :
            outcomes[LastCallOf(i)].kind = "resolved"
                => ValueOf(results, algorithms[i]) = HexOf(SoloHash(algorithms[i]))

\* MD5 and SHA-256 requested together, both recorded, over several chunks.
C7_Witness ==
    /\ pc = "done" /\ algorithms = <<"md5", "sha256">> /\ AllResolved
    /\ Len(file) > chunkSize
    /\ ValueOf(results, "md5").kind = "hex"
    /\ ValueOf(results, "sha256").kind = "hex"

NoImplementation(algorithm) ==
    \/ algorithm \notin {"md5", "sha1", "sha256", "sha512",
                         "hmac-md5", "hmac-sha1", "hmac-sha256"}
    \/ algorithm \in {"sha1", "sha256", "sha512"} /\ ~cryptoSupported

\* C9: calculateHash called with a name without implementation rejects with
\* the unsupported-algorithm error, and no read of the file is ever issued
\* on behalf of that call.
C9_UnsupportedBeforeRead ==
    /\ \A j \in 1..Len(reads) : ~NoImplementation(algorithms[reads[j].alg])
    /\ \A i \in 1..Len(outcomes) :
         NoImplementation(algorithms[i])
            => /\ outcomes[i] = [kind |-> "rejected", message |-> UnsupportedMessage]
               /\ ReadsOf(i) = <<>>
    /\ (pc = "reading" /\ idx <= Len(algorithms)) => ~NoImplementation(algorithms[idx])

\* SHA-256 was requested without the platform primitive and rejected, and
\* the algorithm after it read the file.
C9_Witness ==
    /\ pc = "done" /\ ~cryptoSupported
    /\ algorithms = <<"sha256", "md5">>
    /\ outcomes[1] = [kind |-> "rejected", message |-> UnsupportedMessage]
    /\ ReadsOf(1) = <<>>
    /\ ReadsOf(2) # <<>>

\* ---------------------------------------------------------------- C10
\* C10 as stated, for a list of different algorithms of which at least one
\* was computed over the file: when the report is returned the caller's
\* onProgress has been called once per chunk of the file, the k-th call
\* carrying the bytes consumed after k chunks, whether or not another
\* algorithm (the first included) failed.
C10_OncePerChunk ==
    (pc = "done" /\ Distinct(algorithms) /\ SomeResolved) =>
        /\ Len(events) = NumChunks(Len(file), chunkSize)
        /\ \A k \in 1..Len(events) :
             events[k].processed = Min(k * chunkSize, Len(file))

\* ---------------------------------------------------------------- C15
\* The names of a list in the order of their first occurrence.
RECURSIVE FirstOccurrences(_)
FirstOccurrences(q) ==
    IF q = <<>> THEN <<>>
    ELSE LET front == FirstOccurrences(SubSeq(q, 1, Len(q) - 1))
             last == q[Len(q)]
         IN IF \E i \in 1..Len(front) : front[i] = last THEN front
            ELSE Append(front, last)

KeysOf(res) == [i \in 1..Len(res) |-> res[i].key]

\* C15: the hashValues of the report returned by calculateMultipleHashes
\* hold one entry per distinct requested name, whether its computation
\* resolved or failed, and the entries stand in the order in which the names
\* were first requested (the names are not array indices, so the object
\* enumerates them in insertion order).
C15_OneEntryPerAlgorithm ==
    /\ \A i, j \in 1..Len(results) : i # j => results[i].key # results[j].key
    /\ pc = "done" =>
         /\ report # None
         /\ KeysOf(report[1].hashValues) = FirstOccurrences(algorithms)

\* The same name was requested twice and the report holds it once.
C15_Witness ==
    /\ pc = "done" /\ Len(algorithms) = 2
    /\ algorithms[1] = algorithms[2]
    /\ Len(report[1].hashValues) = 1
    /\ outcomes[1].kind = "resolved"

\* ---------------------------------------------------------------- C19
\* C19: when every issued read completes, a calculateHash call settles; it
\* has then issued at most max(1, ceil(length / chunkSize)) reads, and each
\* read it issued after the first starts beyond the one before it.
C19_EventuallySettles ==
    /\ [](\A i \in 1..Len(algorithms) :
            Len(ReadsOf(i)) <= NumChunks(Len(file), chunkSize))
    /\ [](\A j \in 1..(Len(reads) - 1) :
            reads[j].alg = reads[j + 1].alg => reads[j].off < reads[j + 1].off)
    /\ <>(Len(outcomes) = Len(algorithms))

\* A call that resolved after as many reads as the file has chunks, more than one.
C19_Witness ==
    /\ Len(outcomes) = 1 /\ outcomes[1].kind = "resolved"
    /\ NumChunks(Len(file), chunkSize) >= 2
    /\ Len(ReadsOf(1)) = NumChunks(Len(file), chunkSize)

\* ---------------------------------------------------------------- C20
\* C20: finalizeHash is called at most once per calculateHash call and never
\* for an HMAC algorithm; when it is called updateHash has run for every
\* chunk of the file, the last one included, and from then on no updateHash
\* is made by that call.
C20_FinalizeOnceAtEnd ==
    /\ \A k, m \in 1..Len(finals) : k # m => finals[k].alg # finals[m].alg
    /\ \A k \in 1..Len(finals) :
         LET f == finals[k]
             fedByCall == FedOf(f.alg)
         IN /\ ~StartsWithHmac(algorithms[f.alg])
            /\ f.updates = NumChunks(Len(file), chunkSize)
            /\ f.fedBytes = Len(file)
            /\ Len(fedByCall) = f.updates
            /\ fedByCall[f.updates].off + fedByCall[f.updates].len = Len(file)

\* Two algorithms computed over a file of several chunks, each finalized once.
C20_Witness ==
    /\ pc = "done" /\ Len(finals) = 2
    /\ finals[1].updates >= 2 /\ finals[2].updates >= 2
    /\ finals[1].ok /\ finals[2].ok

\* ---------------------------------------------------------------- C16
\* The value of a hexadecimal digit, of either case.
DigitValue(c) ==
    CASE c \in {"a", "A"} -> 10 [] c \in {"b", "B"} -> 11 [] c \in {"c", "C"} -> 12
      [] c \in {"d", "D"} -> 13 [] c \in {"e", "E"} -> 14 [] c \in {"f", "F"} -> 15
      [] OTHER -> CHOOSE v \in 0..9 : HexDigits[v + 1] = c

DecimalDigits == {"0", "1", "2", "3", "4", "5", "6", "7", "8", "9"}
LowerLetters == {"a", "b", "c", "d", "e", "f"}
UpperLetters == {"A", "B", "C", "D", "E", "F"}

\* C16: bufferToHex of n bytes is a string of 2n hexadecimal digits, the
\* two digits of byte i standing at (0-based) positions 2i and 2i+1, high
\* digit first, a byte below 16 with a leading zero; the letters are upper
\* case when the format is 'uppercase' and lower case for every other format.
C16_TwoDigitsPerByte ==
    hexString # None =>
        LET hex == hexString[1]
        IN /\ Len(hex) = 2 * Len(hexBuffer)
           /\ \A j \in 1..Len(hex) :
                hex[j] \in DecimalDigits \cup
                    (IF hexFormat = "uppercase" THEN UpperLetters ELSE LowerLetters)
           /\ \A i \in 1..Len(hexBuffer) :
                16 * DigitValue(hex[2 * i - 1]) + DigitValue(hex[2 * i]) = hexBuffer[i]

\* A 16-byte buffer holding bytes below 16 and bytes with letter digits gave
\* 32 characters in upper case.
C16_Witness ==
    /\ hexString # None
    /\ hexFormat = "uppercase"
    /\ Len(hexBuffer) = 16 /\ Len(hexString[1]) = 32
    /\ \E i \in 1..16 : hexBuffer[i] < 16
    /\ \E j \in 1..32 : hexString[1][j] \in UpperLetters

\* ---------------------------------------------------------------- C17
\* The MD5 digests of the empty input, of "abc" and of the 80 digits
\* (RFC 1321, A.5), as lower-case hexadecimal strings.
Md5OfEmpty ==
    <<"d", "4", "1", "d", "8", "c", "d", "9", "8", "f", "0", "0", "b", "2", "0", "4",
      "e", "9", "8", "0", "0", "9", "9", "8", "e", "c", "f", "8", "4", "2", "7", "e">>

Md5OfAbc ==
    <<"9", "0", "0", "1", "5", "0", "9", "8", "3", "c", "d", "2", "4", "f", "b", "0",
      "d", "6", "9", "6", "3", "f", "7", "d", "2", "8", "e", "1", "7", "f", "7", "2">>

Md5OfDigits ==
    <<"5", "7", "e", "d", "f", "4", "a", "2", "2", "b", "e", "3", "c", "9", "5", "5",
      "a", "c", "4", "9", "d", "a", "2", "e", "2", "1", "0", "7", "b", "6", "7", "a">>

\* The string calculateHash resolved with for md5 under the format lowercase:
\* bufferToHex of the 16 bytes serialised from the state words.
Md5HexString == bufferToHex(Md5Bytes(ValueOf(results, "md5").digest), "lowercase")

Md5Resolved ==
    /\ pc = "done" /\ algorithms = <<"md5">> /\ outcomes[1].kind = "resolved"

\* C17: calculateHash(file, 'md5'), for every chunk size, resolves with
\* d41d8cd98f00b204e9800998ecf8427e for the empty file and with
\* 900150983cd24fb0d6963f7d28e17f72 for the three bytes "abc" (and with
\* 57edf4a22be3c955ac49da2e2107b67a for the two-block input of 80 digits),
\* the sums inside md5Transform and the round helpers being exact integers
\* that are reduced to 32 bits only by the bitwise operators and by the
\* store into the Uint32Array.
C17_KnownVectors ==
    Md5Resolved =>
        /\ file = <<>> => Md5HexString = Md5OfEmpty
        /\ file = Md5Abc => Md5HexString = Md5OfAbc
        /\ file = Md5Digits => Md5HexString = Md5OfDigits

\* "abc" was hashed; a local variable of its md5Transform exceeded 32 bits.
C17_Witness ==
    /\ Md5Resolved /\ file = Md5Abc
    /\ Len(Md5HexString) = 32
    /\ \E k \in 1..Len(Md5Steps) :
         Md5Rounds(Md5InitWords, BlockWords(PaddedBlocks(Md5Abc)[1]), 65 - k)[1][1] >= Half

\* ---------------------------------------------------------------- C18
\* The 64-bit little-endian encoding of 8n for n below 2^28.
BitLength64(n) ==
    <<(8 * n) % 256, ((8 * n) \div 256) % 256, ((8 * n) \div 65536) % 256,
      ((8 * n) \div 16777216) % 256, 0, 0, 0, 0>>

\* A word of the state as four bytes, low byte first, by division.
LittleEndian(w) == <<w[2] % 256, w[2] \div 256, w[1] % 256, w[1] \div 256>>

\* The blocks a finalizeHash call gave to md5Transform.
PaddingBlocks(f) ==
    SubSeq(f.after.state.blocks, Len(f.before.state.blocks) + 1,
           Len(f.after.state.blocks))

\* C18: md5Final, called with r = n mod 64 bytes of the message left in the
\* buffer, transforms one block when r <= 55 and two when r >= 56; these
\* blocks are the r buffered bytes, 0x80 at position r, zeros up to position
\* 56 of the last block, and 8n in 64 bits little-endian at 56..63; the 16
\* bytes returned are the four state words after that, low byte first.
C18_StandardPadding ==
    \A k \in 1..Len(finals) :
        finals[k].before.type = "js" =>
            LET f == finals[k]
                n == f.fedBytes
                r == n % BlockSize
                words == StateWords(f.after.state.blocks)
            IN /\ BufferIndex(f.before.state.count) = r
               /\ Len(PaddingBlocks(f)) = (IF r <= 55 THEN 1 ELSE 2)
               /\ Concat(PaddingBlocks(f)) =
                     SubSeq(file, n - r + 1, n) \o <<128>>
                        \o Zeros(IF r <= 55 THEN 55 - r ELSE 119 - r)
                        \o BitLength64(n)
               /\ f.result.input = f.after.state.blocks
               /\ Md5Bytes(f.result) =
                     LittleEndian(words[1]) \o LittleEndian(words[2])
                        \o LittleEndian(words[3]) \o LittleEndian(words[4])

\* md5Final ran with 56 or more bytes in the buffer and transformed two
\* blocks; a state word it serialised has its top bit set.
C18_Witness ==
    \E k \in 1..Len(finals) :
        /\ finals[k].before.type = "js"
        /\ finals[k].fedBytes % BlockSize >= 56
        /\ Len(PaddingBlocks(finals[k])) = 2
        /\ \E i \in 1..4 : StateWords(finals[k].after.state.blocks)[i][1] >= 32768

\* ============================================================ the page
\* FileHandler (file list, batch calculation, comparison of a batch), the
\* settings form and UI.compareHash, over the hash engine above. A handler
\* runs to completion; a calculation gives way to other handlers only while
\* it awaits a FileReader event or the platform's digest.
MaxUserEvents == 2
MaxUiFailures == 1

\* The files a user can choose: a and b have equal contents, c differs.
UiFileA == [name |-> "a", content |-> Md5Abc]
UiFileB == [name |-> "b", content |-> Md5Abc]
UiFileC == [name |-> "c", content |-> <<>>]
UiBatches == {<<UiFileA, UiFileB>>, <<UiFileA, UiFileB, UiFileC>>, <<UiFileC>>}

\* The algorithm check boxes that are ticked, in document order.
UiAlgorithmChoices == {<<"md5">>, <<"md5", "sha256">>}

\* The 16 bytes md5Final returns for the two contents, each fitting one
\* read: the bytes whose bufferToHex is Md5OfAbc and Md5OfEmpty.
Md5BytesOfAbc ==
    <<144, 1, 80, 152, 60, 210, 79, 176,
      214, 150, 63, 125, 40, 225, 127, 114>>

Md5BytesOfEmpty ==
    <<212, 29, 140, 217, 143, 0, 178, 4,
      233, 128, 9, 152, 236, 248, 66, 126>>

\* crypto.subtle.digest lies outside the repository: its 32 bytes are fixed
\* per content, with letter digits for one content and without for the other.
PlatformDigestBytes(content) == [i \in 1..32 |-> IF content = <<>> THEN 18 ELSE 171]

DigestBytes(algorithm, content) ==
    IF algorithm = "md5"
    THEN IF content = Md5Abc THEN Md5BytesOfAbc ELSE Md5BytesOfEmpty
    ELSE PlatformDigestBytes(content)

\* `计算失败: ${error.message}`: the prefix and the message, one token each.
FailureText(message) == <<"calculation failed: ", message>>

\* The report calculateMultipleHashes returns.
Report(f, hashValues) ==
    [filename |-> f.name, size |-> Len(f.content), hashValues |-> hashValues]

\* hashGroups[hash] of an algorithm the report does not hold: the key undefined.
UndefinedKey == <<"u", "n", "d", "e", "f", "i", "n", "e", "d">>

HashOfReport(rep, algorithm) ==
    IF HasKey(rep.hashValues, algorithm)
    THEN ValueOf(rep.hashValues, algorithm) ELSE UndefinedKey

\* Mutant: the list of a digest is emptied each time the digest is met.
AddToGroup_Resets(groups, hash, filename) ==
    IF \E g \in 1..Len(groups) : groups[g].hash = hash
    THEN [g \in 1..Len(groups) |->
            IF groups[g].hash = hash THEN [hash |-> hash, files |-> <<filename>>]
            ELSE groups[g]]
    ELSE Append(groups, [hash |-> hash, files |-> <<filename>>])

\* if (!hashGroups[hash]) hashGroups[hash] = []; hashGroups[hash].push(filename):
\* the key is the digest string itself; a string of 32 or more characters is
\* no array index, so the keys keep their insertion order.
AddToGroup(groups, hash, filename) ==
    IF \E g \in 1..Len(groups) : groups[g].hash = hash
    THEN [g \in 1..Len(groups) |->
            IF groups[g].hash = hash
            THEN [hash |-> hash, files |-> Append(groups[g].files, filename)]
            ELSE groups[g]]
    ELSE Append(groups, [hash |-> hash, files |-> <<filename>>])

RECURSIVE HashGroups(_, _)
HashGroups(batch, algorithm) ==
    IF batch = <<>> THEN <<>>
    ELSE LET last == batch[Len(batch)]
         IN AddToGroup(HashGroups(SubSeq(batch, 1, Len(batch) - 1), algorithm),
                       HashOfReport(last, algorithm), last.filename)

\* The Set of the algorithm names of all reports, in insertion order.
BatchAlgorithms(batch) ==
    FirstOccurrences(Concat([i \in 1..Len(batch) |-> KeysOf(batch[i].hashValues)]))

\* compareMultipleFiles: nothing below two reports; else one section per
\* algorithm with its groups and allSame, and the batch it was computed from.
compareMultipleFiles(batch, shown) ==
    IF Len(batch) < 2 THEN shown
    ELSE Some([batch |-> batch,
               sections |->
                 [k \in 1..Len(BatchAlgorithms(batch)) |->
                    LET groups == HashGroups(batch, BatchAlgorithms(batch)[k])
                    IN [algorithm |-> BatchAlgorithms(batch)[k],
                        hashGroups |-> groups,
                        allSame |-> Len(groups) = 1]]])

\* String.prototype.trim over the blank the model types.
RECURSIVE TrimStart(_)
TrimStart(str) ==
    IF str # <<>> /\ str[1] = " " THEN TrimStart(Tail(str)) ELSE str

RECURSIVE TrimEnd(_)
TrimEnd(str) ==
    IF str # <<>> /\ str[Len(str)] = " " THEN TrimEnd(SubSeq(str, 1, Len(str) - 1)) ELSE str

Trim(str) == TrimEnd(TrimStart(str))

\* Mutant: the two strings are compared as they stand.
compareHashes_Exact(hash1, hash2) ==
    IF hash1 = <<>> \/ hash2 = <<>> THEN FALSE
    ELSE hash1 = hash2

\* Utils.compareHashes: false for an empty string, else equality of the
\* lower-cased strings.
compareHashes(hash1, hash2) ==
    IF hash1 = <<>> \/ hash2 = <<>> THEN FALSE
    ELSE toLowerCase(hash1) = toLowerCase(hash2)

\* The matches of one report, in the order of its hashValues.
MatchesOfReport(inputHash, rep) ==
    LET hits == SelectSeq(rep.hashValues, LAMBDA e : compareHashes(inputHash, e.val))
    IN [k \in 1..Len(hits) |->
          [filename |-> rep.filename, algorithm |-> hits[k].key, hash |-> hits[k].val]]

\* UI.compareHash: a warning and no result for a blank input or without
\* reports; else the matches over the reports in order.
compareHash(input, batch, shown) ==
    IF Trim(input) = <<>> \/ batch = <<>> THEN shown
    ELSE Some([input |-> input, batch |-> batch,
               matches |-> Concat([i \in 1..Len(batch) |->
                                     MatchesOfReport(Trim(input), batch[i])])])

\* What a user types into the comparison field.
UiCandidates ==
    {<<" ">> \o toUpperCase(Md5OfAbc) \o <<" ", " ">>, Md5OfEmpty, <<"0", "0">>, <<" ">>}

\* One entry of uiLog: a step of run `run` on the file at position `index`.
UiEvent(kind, run, index, name) ==
    [kind |-> kind, run |-> run, index |-> index, name |-> name]

\* A startCalculation call that awaits a FileReader event or the platform's
\* digest: its loop index i, its file, the position j in the algorithms of
\* calculateMultipleHashes and the hashValues collected for the file so far.
RunOf(m) ==
    [id |-> m.id, algs |-> m.algs, i |-> m.i, file |-> m.file, j |-> m.j,
     results |-> m.results, wait |-> m.wait]

\* The same call with the page's report list and log, as a handler works on it.
Machine(run, calc, log) ==
    [id |-> run.id, algs |-> run.algs, i |-> run.i, file |-> run.file, j |-> run.j,
     results |-> run.results, wait |-> run.wait, calc |-> calc, log |-> log]

\* Mutant: the report is put in front of the list.
PushReport_Front(calc, rep) == <<rep>> \o calc

\* this.calculationResults.push(result).
PushReport(calc, rep) == Append(calc, rep)

\* The loops of startCalculation and calculateMultipleHashes from algorithm
\* j of file i on, up to the next read or the end of the file list: an
\* algorithm without accumulator gets its failure string at once, a report
\* is pushed when the algorithms of its file are through, and the loop
\* condition reads the file list as it is now.
RECURSIVE RunBatch(_, _)
RunBatch(m, files) ==
    IF m.j > Len(m.algs)
    THEN LET pushed ==
               [m EXCEPT !.calc = PushReport(@, Report(m.file, m.results)),
                         !.log = Append(@, UiEvent("append", m.id, m.i, m.file.name))]
         IN IF m.i + 1 < Len(files)
            THEN RunBatch([pushed EXCEPT !.i = m.i + 1, !.file = files[m.i + 2],
                                         !.j = 1, !.results = <<>>], files)
            ELSE [pushed EXCEPT !.wait = "finished"]
    ELSE IF isAlgorithmSupported(m.algs[m.j])
            /\ createHashInstance(m.algs[m.j], cryptoSupported).ok
         THEN [m EXCEPT !.wait = "read"]
         ELSE RunBatch([m EXCEPT !.results = Put(@, m.algs[m.j], FailureText(UnsupportedMessage)),
                                 !.j = @ + 1], files)

\* displayResults reads selectedFiles[index].type for every report: a
\* TypeError when the reports outnumber the files.
DisplayThrows(calc, files) == Len(calc) > Len(files)

\* The state a handler leaves behind for the call m: still waiting, or
\* through (displayResults, compareMultipleFiles for more than one file,
\* the catch, and the button enabled again in the finally).
Settle(m, before, after, files, disabled) ==
    /\ calculationResults' = m.calc
    /\ IF m.wait = "finished"
       THEN /\ runs' = before \o after
            /\ uiLog' = Append(m.log, UiEvent("end", m.id, Len(m.calc),
                                  IF DisplayThrows(m.calc, files) THEN "error" ELSE "ok"))
            /\ calcDisabled' = FALSE
            /\ comparison' = IF ~DisplayThrows(m.calc, files) /\ Len(files) > 1
                             THEN compareMultipleFiles(m.calc, comparison)
                             ELSE comparison
       ELSE /\ runs' = before \o <<RunOf(m)>> \o after
            /\ uiLog' = m.log
            /\ calcDisabled' = disabled
            /\ comparison' = comparison

StartsSoFar(log) == Len(SelectSeq(log, LAMBDA e : e.kind = "start"))

\* startCalculation up to its first await.
startCalculation(files, disabled, log) ==
    IF algorithms = <<>> \/ files = <<>>
    THEN /\ calculationResults' = calculationResults
         /\ calcDisabled' = disabled
         /\ uiLog' = log
         /\ UNCHANGED <<runs, comparison>>
    ELSE LET id == StartsSoFar(log) + 1
             m == [id |-> id, algs |-> algorithms, i |-> 0, file |-> files[1], j |-> 1,
                   results |-> <<>>, wait |-> "start", calc |-> <<>>,
                   log |-> Append(log, UiEvent("start", id, 0, ""))]
         IN Settle(RunBatch(m, files), runs, <<>>, files, TRUE)

\* The algorithm's promise settles with the string str: it is recorded and
\* the loops go on.
Continue(r, str) ==
    LET m == Machine(runs[r], calculationResults, uiLog)
        next == [m EXCEPT !.results = Put(@, m.algs[m.j], str), !.j = @ + 1]
    IN /\ Settle(RunBatch(next, selectedFiles), SubSeq(runs, 1, r - 1),
                 SubSeq(runs, r + 1, Len(runs)), selectedFiles, calcDisabled)
       /\ UNCHANGED <<selectedFiles, currentSettings, matches, userEvents>>

\* processFiles(files) for a non-empty choice.
UiProcessFiles(files) ==
    /\ userEvents < MaxUserEvents
    /\ userEvents' = userEvents + 1
    /\ selectedFiles' = files
    /\ IF currentSettings.autoCalculate
       THEN startCalculation(files, FALSE, Append(uiLog, UiEvent("files", 0, Len(files), "")))
       ELSE /\ calcDisabled' = FALSE
            /\ uiLog' = Append(uiLog, UiEvent("files", 0, Len(files), ""))
            /\ UNCHANGED <<calculationResults, runs, comparison>>
    /\ UNCHANGED <<currentSettings, matches>>
    /\ UNCHANGED <<hashVars, hexVars, setVars, cntVars>>

\* A click on the calculate button, which a disabled button does not deliver.
UiClickCalculate ==
    /\ userEvents < MaxUserEvents
    /\ ~calcDisabled
    /\ userEvents' = userEvents + 1
    /\ startCalculation(selectedFiles, calcDisabled, uiLog)
    /\ UNCHANGED <<selectedFiles, currentSettings, matches>>
    /\ UNCHANGED <<hashVars, hexVars, setVars, cntVars>>

UiClearFiles ==
    /\ userEvents < MaxUserEvents
    /\ userEvents' = userEvents + 1
    /\ selectedFiles' = <<>>
    /\ calculationResults' = <<>>
    /\ calcDisabled' = TRUE
    /\ uiLog' = Append(uiLog, UiEvent("files", 0, 0, ""))
    /\ UNCHANGED <<currentSettings, runs, comparison, matches>>
    /\ UNCHANGED <<hashVars, hexVars, setVars, cntVars>>

\* saveUserSettings with the form's check box and result format.
UiSaveUserSettings(auto, format) ==
    /\ userEvents < MaxUserEvents
    /\ userEvents' = userEvents + 1
    /\ currentSettings' = [autoCalculate |-> auto, resultFormat |-> format]
    /\ UNCHANGED <<selectedFiles, calculationResults, calcDisabled, runs, uiLog,
                   comparison, matches>>
    /\ UNCHANGED <<hashVars, hexVars, setVars, cntVars>>

UiCompareHash(input) ==
    /\ userEvents < MaxUserEvents
    /\ userEvents' = userEvents + 1
    /\ matches' = compareHash(input, calculationResults, matches)
    /\ UNCHANGED <<selectedFiles, calculationResults, currentSettings, calcDisabled,
                   runs, uiLog, comparison>>
    /\ UNCHANGED <<hashVars, hexVars, setVars, cntVars>>

\* reader.onload of a call: updateHash; the MD5 accumulator finalizes at
\* once and the promise resolves with bufferToHex under the format set now;
\* a delegated digest is awaited from the platform.
UiOnLoad(r) ==
    /\ runs[r].wait = "read"
    /\ LET run == runs[r]
           alg == run.algs[run.j]
       IN IF createHashInstance(alg, cryptoSupported).obj.type = "crypto"
          THEN /\ runs' = [runs EXCEPT ![r].wait = "digest"]
               /\ UNCHANGED <<selectedFiles, calculationResults, currentSettings,
                              calcDisabled, uiLog, comparison, matches, userEvents>>
          ELSE Continue(r, bufferToHex(DigestBytes(alg, run.file.content),
                                       currentSettings.resultFormat))
    /\ UNCHANGED <<hashVars, hexVars, setVars, cntVars>>

\* crypto.subtle.digest fulfils: the promise resolves with bufferToHex under
\* the format set now.
UiDigestDone(r) ==
    /\ runs[r].wait = "digest"
    /\ Continue(r, bufferToHex(DigestBytes(runs[r].algs[runs[r].j], runs[r].file.content),
                               currentSettings.resultFormat))
    /\ UNCHANGED <<hashVars, hexVars, setVars, cntVars>>

FailuresSoFar(log) == Len(SelectSeq(log, LAMBDA e : e.kind = "fail"))

\* reader.onerror, or the platform's digest rejects: the failure string.
UiOnError(r) ==
    /\ runs[r].wait \in {"read", "digest"}
    /\ FailuresSoFar(uiLog) < MaxUiFailures
    /\ LET m == Machine(runs[r], calculationResults,
                        Append(uiLog, UiEvent("fail", runs[r].id, runs[r].i, runs[r].file.name)))
           next == [m EXCEPT !.results = Put(@, m.algs[m.j],
                                 FailureText(IF m.wait = "read" THEN ReadFailedMessage
                                             ELSE PlatformMessage)),
                             !.j = @ + 1]
       IN Settle(RunBatch(next, selectedFiles), SubSeq(runs, 1, r - 1),
                 SubSeq(runs, r + 1, Len(runs)), selectedFiles, calcDisabled)
    /\ UNCHANGED <<selectedFiles, currentSettings, matches, userEvents>>
    /\ UNCHANGED <<hashVars, hexVars, setVars, cntVars>>

InitUI ==
    /\ file = <<>>
    /\ chunkSize = 1
    /\ algorithms \in UiAlgorithmChoices
    /\ cryptoSupported \in BOOLEAN
    /\ hmacKey = None
    /\ pc = "idle"
    /\ idx = 1
    /\ mode = "none"
    /\ rd = NoRead
    /\ offset = 0
    /\ processedBytes = 0
    /\ hashObj = NoHashObj
    /\ chunks = <<>>
    /\ results = <<>>
    /\ report = None
    /\ reads = <<>>
    /\ fed = <<>>
    /\ events = <<>>
    /\ outcomes = <<>>
    /\ ioFailed = FALSE
    /\ finals = <<>>
    /\ HexIdle
    /\ SetIdle
    /\ CntIdle
    /\ selectedFiles = <<>>
    /\ calculationResults = <<>>
    /\ currentSettings \in [autoCalculate : BOOLEAN, resultFormat : {"lowercase", "uppercase"}]
    /\ calcDisabled = TRUE
    /\ runs = <<>>
    /\ uiLog = <<>>
    /\ comparison = None
    /\ matches = None
    /\ userEvents = 0

NextUI ==
    \/ \E files \in UiBatches : UiProcessFiles(files)
    \/ UiClickCalculate
    \/ UiClearFiles
    \/ \E auto \in BOOLEAN, format \in {"lowercase", "uppercase"} :
          UiSaveUserSettings(auto, format)
    \/ \E input \in UiCandidates : UiCompareHash(input)
    \/ \E r \in DOMAIN runs : UiOnLoad(r)
    \/ \E r \in DOMAIN runs : UiDigestDone(r)
    \/ \E r \in DOMAIN runs : UiOnError(r)

SpecUI == InitUI /\ [][NextUI]_vars

\* ---------------------------------------------------------------- C11
\* The digest strings of a batch for an algorithm, in report order.
DigestsOf(batch, algorithm) ==
    [i \in 1..Len(batch) |-> HashOfReport(batch[i], algorithm)]

\* The file names of the reports whose digest, lower-cased, is `class`.
NamesOfClass(batch, algorithm, class) ==
    LET hits == SelectSeq(batch, LAMBDA rep : toLowerCase(HashOfReport(rep, algorithm)) = class)
    IN [i \in 1..Len(hits) |-> hits[i].filename]

\* C11: for each algorithm, the groups compareMultipleFiles renders are the
\* classes of the batch's digest strings under equality ignoring letter
\* case: one group per class, in the order in which the classes are first
\* seen, each holding the file names of its class in report order, also
\* when the reports of the batch were formatted under different
\* resultFormat settings.
C11_GroupsIgnoreCase ==
    comparison # None =>
      \A k \in DOMAIN comparison[1].sections :
        LET batch == comparison[1].batch
            sec == comparison[1].sections[k]
            classes == FirstOccurrences([i \in 1..Len(batch) |-> toLowerCase(HashOfReport(batch[i], sec.algorithm))])
        IN /\ Len(sec.hashGroups) = Len(classes)
           /\ \A g \in 1..Len(classes) :
                /\ toLowerCase(sec.hashGroups[g].hash) = classes[g]
                /\ sec.hashGroups[g].files = NamesOfClass(batch, sec.algorithm, classes[g])

\* ---------------------------------------------------------------- C12
GroupSizes(sec) == [g \in 1..Len(sec.hashGroups) |-> Len(sec.hashGroups[g].files)]

\* Two of the three digest strings are the same string and the third differs.
TwoShareOneDiffers(d) ==
    /\ Len(d) = 3
    /\ Cardinality({d[1], d[2], d[3]}) = 2

\* C12: compareMultipleFiles renders nothing below two reports and declares
\* an algorithm "all identical" exactly when its grouping has one group;
\* for three reports of which two hold the same digest string and one a
\* different one it yields two groups, of two files and of one file, and
\* does not declare them identical.
C12_AllSameIffOneGroup ==
    comparison # None =>
      /\ Len(comparison[1].batch) >= 2
      /\ \A k \in DOMAIN comparison[1].sections :
           LET sec == comparison[1].sections[k]
           IN /\ sec.allSame <=> Len(sec.hashGroups) = 1
              /\ TwoShareOneDiffers(DigestsOf(comparison[1].batch, sec.algorithm)) =>
                   /\ GroupSizes(sec) \in {<<2, 1>>, <<1, 2>>}
                   /\ ~sec.allSame

\* Witness: a batch of three reports, two of them with the same digest
\* string, has been compared and was not declared identical.
C12_Witness ==
    /\ comparison # None
    /\ \E k \in DOMAIN comparison[1].sections :
         /\ TwoShareOneDiffers(DigestsOf(comparison[1].batch, comparison[1].sections[k].algorithm))
         /\ GroupSizes(comparison[1].sections[k]) = <<2, 1>>
         /\ ~comparison[1].sections[k].allSame

\* ---------------------------------------------------------------- C13
\* Every (filename, algorithm, hash) of a batch, reports in order and, per
\* report, the algorithms in the order of its hashValues.
TriplesOf(batch) ==
    Concat([i \in 1..Len(batch) |->
              [k \in 1..Len(batch[i].hashValues) |->
                 [filename |-> batch[i].filename,
                  algorithm |-> batch[i].hashValues[k].key,
                  hash |-> batch[i].hashValues[k].val]]])

\* C13: for a candidate (the field's value, trimmed) that is not empty,
\* compareHash collects exactly the (filename, algorithm, hash) triples of
\* calculationResults whose hash equals the candidate ignoring letter case,
\* in report order and then algorithm order; so the list is empty exactly
\* when no digest matches.
C13_MatchesIgnoreCase ==
    matches # None =>
      LET candidate == Trim(matches[1].input)
      IN /\ candidate # <<>>
         /\ matches[1].matches =
              SelectSeq(TriplesOf(matches[1].batch),
                        LAMBDA t : toLowerCase(t.hash) = toLowerCase(candidate))

\* Witness: a candidate typed in upper case between blanks matched the
\* lower-case digests of two reports.
C13_Witness ==
    /\ matches # None
    /\ Len(matches[1].matches) >= 2
    /\ \A k \in DOMAIN matches[1].matches :
         /\ matches[1].matches[k].hash # Trim(matches[1].input)
         /\ matches[1].input # Trim(matches[1].input)

\* ---------------------------------------------------------------- C14
\* The reports a startCalculation call has pushed, as logged.
AppendsOf(id) == SelectSeq(uiLog, LAMBDA e : e.kind = "append" /\ e.run = id)

\* The file list has not been replaced or cleared since the call started.
ListStableSince(id) ==
    \A p, q \in DOMAIN uiLog :
      (uiLog[p].kind = "start" /\ uiLog[p].run = id /\ uiLog[q].kind = "files") => q < p

\* C14: within one startCalculation call the reports are produced one after
\* another: its pushes carry the loop indices 0, 1, 2, ... in this order;
\* while it awaits a read or a digest for the file at index i, the reports
\* of the files before i, and only those, have been pushed; as long as the
\* file list is the one the call started with, the pushed reports are those
\* of the list's files in the list's order, and, with no other call
\* started, calculationResults holds exactly them in this order.
C14_OneFileAtATime ==
    /\ \A id \in 1..StartsSoFar(uiLog) :
         /\ \A n \in 1..Len(AppendsOf(id)) : AppendsOf(id)[n].index = n - 1
         /\ ListStableSince(id) =>
              /\ Len(AppendsOf(id)) <= Len(selectedFiles)
              /\ \A n \in 1..Len(AppendsOf(id)) : AppendsOf(id)[n].name = selectedFiles[n].name
              /\ StartsSoFar(uiLog) = 1 =>
                   [n \in 1..Len(calculationResults) |-> calculationResults[n].filename]
                     = [n \in 1..Len(AppendsOf(id)) |-> AppendsOf(id)[n].name]
    /\ \A r \in DOMAIN runs : Len(AppendsOf(runs[r].id)) = runs[r].i

\* Witness: a call awaits the read of its third file with the reports of
\* the first two in calculationResults.
C14_Witness ==
    \E r \in DOMAIN runs :
      /\ runs[r].i = 2
      /\ runs[r].wait = "read"
      /\ Len(AppendsOf(runs[r].id)) = 2
      /\ Len(calculationResults) = 2

\* ---------------------------------------------------------------- C21
\* The consecutive whole 64-byte blocks of the first n bytes of the stream.
BlocksOfStream(n) ==
    [k \in 1..(n \div BlockSize) |-> Slice(file, (k - 1) * BlockSize, k * BlockSize)]

\* C21: after any sequence of md5Update calls, with chunks of any length
\* (empty ones and lengths off the block size included) and n bytes in all,
\* md5Transform has been applied floor(n / 64) times, to the consecutive
\* 64-byte blocks of the input in order, and the first n mod 64 bytes of
\* the partial buffer are the last n mod 64 bytes of the input.
C21_BlocksAndRemainder ==
    (pc = "acc" /\ hashObj.type = "js" /\ finals = <<>>) =>
      /\ hashObj.state.blocks = BlocksOfStream(offset)
      /\ SubSeq(hashObj.state.buffer, 1, offset % BlockSize)
           = Slice(file, offset - (offset % BlockSize), offset)

\* Witness: three updates, one of them empty and one of more than two
\* blocks, that end off a block boundary after the buffer was completed.
C21_Witness ==
    /\ pc = "acc" /\ hashObj.type = "js" /\ finals = <<>>
    /\ Len(fed) = 3
    /\ fed[1].len = 55 /\ fed[2].len = 0 /\ fed[3].len = 130
    /\ Len(hashObj.state.blocks) = 2
    /\ offset % BlockSize = 57

\* ---------------------------------------------------------------- C23
\* C23: within one calculateHash traversal (an algorithm that is not an
\* HMAC) the chunks reach the accumulator in the order and with the ranges
\* in which their reads were issued; at most one read has been issued
\* beyond the updates made, and only while the traversal is waiting for it;
\* and the offsets of the chunks fed grow strictly from one update to the
\* next.
C23_OneReadInFlight ==
    \A i \in 1..Len(algorithms) :
      ~StartsWithHmac(algorithms[i]) =>
        /\ IsPrefix(FedOf(i), ReadsOf(i))
        /\ Len(ReadsOf(i)) <= Len(FedOf(i)) + 1
        /\ (Len(ReadsOf(i)) = Len(FedOf(i)) + 1 /\ ~ioFailed)
              => (pc = "reading" /\ idx = i /\ rd.off = ReadsOf(i)[Len(ReadsOf(i))].off)
        /\ \A k \in 1..(Len(FedOf(i)) - 1) : FedOf(i)[k].off < FedOf(i)[k + 1].off

\* Witness: the fourth read of a traversal is outstanding after three updates.
C23_Witness ==
    \E i \in 1..Len(algorithms) :
      /\ ~StartsWithHmac(algorithms[i])
      /\ pc = "reading" /\ idx = i
      /\ Len(FedOf(i)) = 3
      /\ Len(ReadsOf(i)) = 4

\* ---------------------------------------------------------------- C24
\* C24: for a delegated (crypto) accumulator that has had at least one
\* updateHash call, empty chunks included, the internal buffer is the
\* concatenation of the chunks in call order; each finalizeHash call hands
\* this whole buffer to the digest primitive in one invocation, whose
\* result it returns, and leaves the accumulator as it was.
C24_BufferIsConcatenation ==
    (pc = "acc" /\ hashObj.type = "crypto") =>
      /\ Len(fed) >= 1 => hashObj.buffer = Some(Slice(file, 0, offset))
      /\ \A k \in 1..Len(finals) :
           finals[k].updates >= 1 =>
             /\ finals[k].before.buffer = Some(Slice(file, 0, finals[k].fedBytes))
             /\ finals[k].after = finals[k].before
             /\ finals[k].ok =>
                  finals[k].result = Digest(hashObj.algorithm, Slice(file, 0, finals[k].fedBytes))

\* Witness: three updates, the second one empty, then a finalizeHash that
\* returned the digest.
C24_Witness ==
    /\ pc = "acc" /\ hashObj.type = "crypto"
    /\ Len(fed) = 3
    /\ fed[1].len > 0 /\ fed[2].len = 0 /\ fed[3].len > 0
    /\ Len(finals) = 1
    /\ finals[1].ok /\ finals[1].updates = 3

\* ---------------------------------------------------------------- C25
\* The bytes of the ranges read by call i, in the order the reads were issued.
BytesReadBy(i) ==
    Concat([k \in 1..Len(ReadsOf(i)) |->
              Slice(file, ReadsOf(i)[k].off, ReadsOf(i)[k].off + ReadsOf(i)[k].len)])

\* C25: a calculateHash call for an HMAC algorithm that resolved has read
\* every chunk of the file, and its result is the one signature over the
\* chunks joined in the order read, which is the file, under the key given
\* or the empty key when none is given; a call whose read failed has
\* recorded the read failure and no signature; and a call the platform
\* failed has read either nothing (the key import failed) or the whole file
\* (the signature failed), so that sign is never invoked between two reads.
C25_SignAfterAllReads ==
    \A i \in 1..Len(outcomes) :
      StartsWithHmac(algorithms[i]) =>
        LET o == outcomes[i]
            v == ValueOf(results, algorithms[i])
            last == LastCallOf(i) = i /\ (pc = "done" \/ idx > i)
        IN /\ o.kind = "resolved" =>
                /\ Len(ReadsOf(i)) = NumChunks(Len(file), chunkSize)
                /\ BytesReadBy(i) = file
                /\ last =>
                     /\ v = HexOf(Sign(hmacAlgoMap(Substring5(algorithms[i]))[1], hmacKey,
                                       BytesReadBy(i)))
                     /\ hmacKey = None => v.digest.key = ""
           /\ (o.kind = "rejected" /\ o.message = ReadFailedMessage) =>
                /\ Len(ReadsOf(i)) >= 1
                /\ last => v = FailureMarker(ReadFailedMessage)
           /\ (o.kind = "rejected" /\ o.message = PlatformMessage) =>
                Len(ReadsOf(i)) \in {0, NumChunks(Len(file), chunkSize)}

\* Witness: an HMAC without a key resolved after three reads.
C25_Witness ==
    \E i \in 1..Len(outcomes) :
      /\ StartsWithHmac(algorithms[i])
      /\ hmacKey = None
      /\ outcomes[i].kind = "resolved"
      /\ Len(ReadsOf(i)) >= 3
      /\ LastCallOf(i) = i
      /\ ValueOf(results, algorithms[i]).digest.key = ""

\* ---------------------------------------------------------------- C27
\* C27: calculateMultipleHashes never rejects on account of an algorithm:
\* whatever the names requested and however the reads and the platform
\* calls end, the call goes on until it returns, and what it returns is a
\* report with the file's name and size in which every requested name has
\* a hex digest or a failure string.
C27_AlwaysAReport ==
    /\ pc \in {"loop", "reading", "done"}
    /\ pc # "done" => (report = None /\ ENABLED Next)
    /\ pc = "done" =>
         /\ report # None
         /\ report[1].filename = "file"
         /\ report[1].size = Len(file)
         /\ \A i \in 1..Len(algorithms) :
              /\ HasKey(report[1].hashValues, algorithms[i])
              /\ ValueOf(report[1].hashValues, algorithms[i]).kind \in {"hex", "failed"}

\* Witness: a report for a request in which no algorithm could be computed:
\* an unknown name and a read failure.
C27_Witness ==
    /\ pc = "done" /\ report # None
    /\ Len(algorithms) = 2
    /\ outcomes[1].kind = "rejected" /\ outcomes[1].message = UnsupportedMessage
    /\ outcomes[2].kind = "rejected" /\ outcomes[2].message = ReadFailedMessage
    /\ \A i \in 1..2 : ValueOf(report[1].hashValues, algorithms[i]).kind = "failed"

\* ---------------------------------------------------------------- C28
\* C28: at most one call of startCalculation is in progress at any time,
\* and while one is in progress the calculate button is disabled.
C28_SingleRun ==
    /\ Len(runs) <= 1
    /\ runs # <<>> => calcDisabled

\* ---------------------------------------------------------------- C29
\* calculationResults[i] is the report of selectedFiles[i], for every i.
Aligned(calc, files) ==
    /\ Len(calc) = Len(files)
    /\ \A i \in 1..Len(calc) :
         /\ calc[i].filename = files[i].name
         /\ calc[i].size = Len(files[i].content)

\* The last thing that changed the file list or the reports was the end of
\* a startCalculation call: the two lists are as displayResults found them.
JustDisplayed == uiLog # <<>> /\ uiLog[Len(uiLog)].kind = "end"

\* C29: whenever displayResults (and compareMultipleFiles after it) runs,
\* calculationResults and selectedFiles have the same length and the i-th
\* report is the report of the i-th selected file.
C29_AlignedAtDisplay == JustDisplayed => Aligned(calculationResults, selectedFiles)

\* ---------------------------------------------------------------- C30
\* The string is a failure string of calculateMultipleHashes.
IsFailureText(str) == str # <<>> /\ str[1] = FailureText("")[1]

\* C30: compareMultipleFiles declares the files of a batch identical under
\* an algorithm only if every report of the batch holds a digest for that
\* algorithm, and not a failure string.
C30_IdenticalOnlyForDigests ==
    comparison # None =>
      \A k \in DOMAIN comparison[1].sections :
        comparison[1].sections[k].allSame =>
          \A i \in DOMAIN comparison[1].batch :
            ~IsFailureText(HashOfReport(comparison[1].batch[i], comparison[1].sections[k].algorithm))

\* ======================================================================
\* SettingsManager: the chunk size setting
\* ======================================================================
MaxSettingsCalls == 3

IsDigit(c) == c \in DecimalDigits

\* The number of decimal digits str starts with.
RECURSIVE LeadingDigits(_)
LeadingDigits(str) ==
    IF str # <<>> /\ IsDigit(str[1]) THEN 1 + LeadingDigits(Tail(str)) ELSE 0

\* The value of a sequence of decimal digits.
RECURSIVE DecimalValue(_)
DecimalValue(digits) ==
    IF digits = <<>> THEN 0
    ELSE 10 * DecimalValue(SubSeq(digits, 1, Len(digits) - 1))
            + DigitValue(digits[Len(digits)])

\* parseInt(text, 10): leading white space is dropped, one sign is read,
\* then the longest run of decimal digits; NaN when there is no digit.
parseInt(text) ==
    LET str    == TrimStart(text)
        signed == str # <<>> /\ str[1] \in {"-", "+"}
        body   == IF signed THEN Tail(str) ELSE str
        n      == LeadingDigits(body)
        value  == DecimalValue(SubSeq(body, 1, n))
    IN  IF n = 0 THEN NaN
        ELSE JsNumber(IF signed /\ str[1] = "-" THEN 0 - value ELSE value)

\* What the chunk-size field of the settings form can hold when the user
\* saves: the field's text.
FormValues ==
    { <<"5", "1", "2">>, <<"1">>, <<"0">>, <<"-", "4">>, <<>>, <<"a", "b">>,
      <<" ", "6", "4">>, <<"8", "k", "b">> }

\* The values a caller can pass to set('chunkSize', value).
SetValues ==
    { JsNumber(1), JsNumber(65536), JsNumber(0), JsNumber(0 - 1), NaN, JsNull,
      JsString(<<"6", "4">>) }

\* JSON.stringify followed by JSON.parse on the chunkSize property: NaN is
\* written as null, the other values come back as they were.
JsonRoundTrip(value) == IF value.type = "NaN" THEN JsNull ELSE value

\* The stored item after saveSettings.
Stored(value) == [kind |-> "object", chunkSize |-> Some(JsonRoundTrip(value))]

\* What localStorage can hold under the key: nothing, a text JSON.parse
\* rejects, an object without a chunkSize property, or an object with one.
StoredContents ==
    { NoItem,
      [kind |-> "corrupt", chunkSize |-> None],
      [kind |-> "object", chunkSize |-> None] }
        \cup { Stored(v) : v \in SetValues }

\* loadSettings(): the stored object is spread over DEFAULT_SETTINGS; a
\* stored text that does not parse gives the defaults; no item changes nothing.
loadSettings(current, item) ==
    CASE item.kind = "absent"  -> current
      [] item.kind = "corrupt" -> JsNumber(DefaultChunkSize)
      [] item.kind = "object"  ->
            IF item.chunkSize = None THEN JsNumber(DefaultChunkSize)
            ELSE item.chunkSize[1]

\* SettingsManager.get('chunkSize')
GetChunkSize == chunkSetting

IsPositiveInteger(value) == value.type = "number" /\ value.num > 0

InitSettings ==
    /\ chunkSetting = JsNumber(DefaultChunkSize)
    /\ storedSettings \in StoredContents
    /\ settingsCalls = 0
    /\ HashIdle
    /\ HexIdle
    /\ UiIdle
    /\ CntIdle

CallLoadSettings ==
    /\ settingsCalls < MaxSettingsCalls
    /\ chunkSetting' = loadSettings(chunkSetting, storedSettings)
    /\ settingsCalls' = settingsCalls + 1
    /\ UNCHANGED <<hashVars, hexVars, uiVars, cntVars, storedSettings>>

\* set('chunkSize', value)
CallSet(value) ==
    /\ settingsCalls < MaxSettingsCalls
    /\ chunkSetting' = value
    /\ settingsCalls' = settingsCalls + 1
    /\ UNCHANGED <<hashVars, hexVars, uiVars, cntVars, storedSettings>>

\* saveUserSettings() with the form's chunk-size field holding text;
\* saved tells whether localStorage.setItem returned or threw.
CallSaveUserSettings(text, saved) ==
    /\ settingsCalls < MaxSettingsCalls
    /\ chunkSetting' = parseInt(text)
    /\ storedSettings' = IF saved THEN Stored(parseInt(text)) ELSE storedSettings
    /\ settingsCalls' = settingsCalls + 1
    /\ UNCHANGED <<hashVars, hexVars, uiVars, cntVars>>

NextSettings ==
    \/ CallLoadSettings
    \/ \E value \in SetValues : CallSet(value)
    \/ \E text \in FormValues, saved \in BOOLEAN : CallSaveUserSettings(text, saved)

SpecSettings == InitSettings /\ [][NextSettings]_vars

\* ---------------------------------------------------------------- C26
\* C26: in every reachable state of SettingsManager, whatever loadSettings
\* found in localStorage and whatever set and saveUserSettings were given,
\* get('chunkSize') is a positive integer.
C26_ChunkSizePositive == IsPositiveInteger(GetChunkSize)

\* ======================================================================
\* MD5: the bit counter at full width
\* ======================================================================
\* state.count is a JavaScript number; here it is kept as a pair <<hi, lo>>
\* (see Half), so that counts of 2^32 and more are represented exactly, and
\* the bytes of the data are left out: only data.length reaches the counter.
MaxCountCalls == 3

\* data.length of the chunks considered: 0, 1, 64, 524288 (the default
\* chunk size), 2^28 - 1, 2^28, 2^29 and 2^30 + 5.
CountChunkLens ==
    { <<0, 0>>, <<0, 1>>, <<0, 64>>, <<8, 0>>, <<4095, 65535>>, <<4096, 0>>,
      <<8192, 0>>, <<16384, 5>> }

\* md5Update: state.count += data.length << 3
CountAfterUpdate(count, len) == JsAdd(count, JsShl(len, 3))

\* The integer q as a pair.
PairOf(q) == <<q \div Half, q % Half>>

\* -x for a pair x.
JsNegate(x) == IF x[2] = 0 THEN <<0 - x[1], 0>> ELSE <<0 - x[1] - 1, Half - x[2]>>

\* The integer part of count / 0x100000000 (the part the & operator keeps
\* of the quotient: ToInt32 drops the fraction, towards zero).
QuotientBy2To32(count) ==
    IF count[1] >= 0 THEN PairOf(count[1] \div Half)
    ELSE PairOf(0 - (JsNegate(count)[1] \div Half))

Mask32 == <<65535, 65535>>

\* DataView.setUint32(at, value, true): the four bytes of value reduced to
\* an unsigned 32-bit integer, least significant first.
Uint32Bytes(value) ==
    <<value[2] % 256, value[2] \div 256,
      ToUint32(value)[1] % 256, ToUint32(value)[1] \div 256>>

\* md5Final: the eight bytes of lengthBytes,
\*   setUint32(0, count & 0xFFFFFFFF, true)
\*   setUint32(4, (count / 0x100000000) & 0xFFFFFFFF, true)
CountLengthBytes(count) ==
    Uint32Bytes(JsAnd(count, Mask32))
        \o Uint32Bytes(JsAnd(QuotientBy2To32(count), Mask32))

InitCount ==
    /\ CntIdle
    /\ HashIdle
    /\ HexIdle
    /\ UiIdle
    /\ SetIdle

\* md5Update(state, data) with data.length = len.
CountUpdate(len) ==
    /\ md5Calls < MaxCountCalls
    /\ md5Length = None
    /\ md5Count' = CountAfterUpdate(md5Count, len)
    /\ md5Total' = JsAdd(md5Total, len)
    /\ md5Calls' = md5Calls + 1
    /\ UNCHANGED <<hashVars, hexVars, uiVars, setVars, md5Length>>

\* md5Final(state), as far as lengthBytes.
CountFinal ==
    /\ md5Length = None
    /\ md5Length' = Some(CountLengthBytes(md5Count))
    /\ UNCHANGED <<hashVars, hexVars, uiVars, setVars, md5Count, md5Total, md5Calls>>

NextCount ==
    \/ \E len \in CountChunkLens : CountUpdate(len)
    \/ CountFinal

SpecCount == InitCount /\ [][NextCount]_vars

\* ---------------------------------------------------------------- C22
\* 8n for a byte total n, exactly.
EightTimes(n) == <<8 * n[1] + ((8 * n[2]) \div Half), (8 * n[2]) % Half>>

\* The 64-bit little-endian encoding of a count below 2^47: low word, then
\* high word.
LittleEndian64(bits) == Uint32Bytes(bits) \o Uint32Bytes(PairOf(bits[1] \div Half))

\* C22: after md5Update calls totalling n bytes, whatever the chunk lengths,
\* state.count is 8n, and the length md5Final writes is the low and the high
\* 32-bit half of 8n.
C22_CountIsEightN ==
    /\ md5Count = EightTimes(md5Total)
    /\ md5Length # None => md5Length[1] = LittleEndian64(EightTimes(md5Total))

====
